---- MODULE Spec2Model ----
(***************************************************************************)
(* The submission-to-report pipeline of ArchiBot (src/app.py): the JSON    *)
(* store, the monthly quota, the single-use submission tokens, the         *)
(* handler POST /f/{token} (submit_form) and the mail dispatcher.          *)
(***************************************************************************)
EXTENDS Integers, Sequences, FiniteSets, TLC

VARIABLES
    now,          \* the wall clock read by _now_ts(), in seconds
    disk,         \* the content of DATA_FILE, as _load_db() returns it
    req,          \* the POST /f/{token} requests: position and local variables
    claimedEver,  \* history: the submission tokens some claim has accepted
    probe         \* the call under test of the function-level specifications

vars == <<now, disk, req, claimedEver, probe>>

-----------------------------------------------------------------------------
(* Program constants *)

\* The values of a deployment that sets none of the environment variables
\* ENABLE_FREE_PLAN, FREE_FORMS_PER_MONTH_LIMIT and DEV_BYPASS_SUBSCRIPTION.
FORMS_PER_MONTH_LIMIT == 100
FREE_FORMS_PER_MONTH_LIMIT == 3
ENABLE_FREE_PLAN == TRUE
DEV_BYPASS_SUBSCRIPTION == FALSE
ttl_seconds == 6 * 60 * 60

(* Model values *)

\* One calendar month of the clock; _period_key names the month of a timestamp.
MonthLen == 30 * 24 * 60 * 60

\* The instants at which requests are observed: the start, the last second
\* a token claimed at the start is still inside the TTL, the first second it
\* is outside, and the first second of the next month.
Instants == {0, ttl_seconds, ttl_seconds + 1, MonthLen}

NumRequests == 2
Requests == 1..NumRequests

\* How many requests may die while being served.
MaxCrashes == 1

CompanyIds == {"c1", "c2", "c3"}
LinkTokens == {"k1", "k2", "k3", "kx"}
SubmitTokens == {"", "t1"}

Max(a, b) == IF a >= b THEN a ELSE b

-----------------------------------------------------------------------------
(* The store *)

_period_key(ts) == ts \div MonthLen

Architect(id, email, token) == [id |-> id, email |-> email, token |-> token]

Company(id, plan, status, sent, archs) ==
    [id |-> id, plan |-> plan, stripe_status |-> status,
     usage |-> [period |-> _period_key(0), forms_sent |-> sent],
     architects |-> archs, reports |-> <<>>]

\* The data file the process starts with: a tenant on the free plan with one
\* submission left this month, a paying tenant with two left, and a tenant
\* without access.
InitialDb ==
    [companies |->
        [c \in CompanyIds |->
            CASE c = "c1" -> Company("c1", "free", "inactive", FREE_FORMS_PER_MONTH_LIMIT - 1,
                                     <<Architect("a1", "a1@x", "k1")>>)
              [] c = "c2" -> Company("c2", "monthly", "active", FORMS_PER_MONTH_LIMIT - 2,
                                     <<Architect("a2", "a2@x", "k2")>>)
              [] OTHER    -> Company("c3", "none", "inactive", 0,
                                     <<Architect("a3", "a3@x", "k3")>>)],
     submit_tokens |-> [t \in {} |-> 0]]

\* A data file that is missing, or that json.load cannot read.
UnreadableFile == [unreadable |-> TRUE]

\* {"companies": {}}: a db without tenants and without claimed tokens.
EmptyDb == [companies |-> [c \in {} |-> 0], submit_tokens |-> [t \in {} |-> 0]]

\* _load_db: the content of the file, or the empty db when the file is
\* missing or the read raises.
_load_db == IF disk = UnreadableFile THEN EmptyDb ELSE disk

_company_plan(company) ==
    IF company.plan \in {"free", "monthly", "yearly", "none"} THEN company.plan
    ELSE IF company.stripe_status \in {"active", "trialing"} THEN "monthly"
    ELSE IF ENABLE_FREE_PLAN THEN "free" ELSE "none"

_forms_limit(company) ==
    LET plan == _company_plan(company) IN
    IF plan = "free" THEN (IF ENABLE_FREE_PLAN THEN FREE_FORMS_PER_MONTH_LIMIT ELSE 0)
    ELSE IF plan \in {"monthly", "yearly"} THEN FORMS_PER_MONTH_LIMIT
    ELSE 0

\* _ensure_usage_period renaming a stale period and keeping its count.
_ensure_usage_period_keeping(company, ts) ==
    [company EXCEPT !.usage.period = _period_key(ts)]

\* The company as _ensure_usage_period leaves it at time ts.
_ensure_usage_period(company, ts) ==
    IF company.usage.period # _period_key(ts)
    THEN [company EXCEPT !.usage = [period |-> _period_key(ts), forms_sent |-> 0]]
    ELSE company

\* _forms_remaining without the clamp at zero.
_forms_remaining_unclamped(company, ts) ==
    LET c == _ensure_usage_period(company, ts) IN
    _forms_limit(c) - c.usage.forms_sent

\* _forms_remaining counting one submission too few.
_forms_remaining_off_by_one(company, ts) ==
    LET c == _ensure_usage_period(company, ts) IN
    Max(0, _forms_limit(c) - c.usage.forms_sent + 1)

_forms_remaining(company, ts) ==
    LET c == _ensure_usage_period(company, ts) IN
    Max(0, _forms_limit(c) - c.usage.forms_sent)

\* _increment_forms_sent adding to the stored count whatever its period.
_increment_forms_sent_without_reset(db, company_id, ts) ==
    LET c == db.companies[company_id] IN
    [db EXCEPT !.companies[company_id] =
        [c EXCEPT !.usage = [period |-> _period_key(ts),
                             forms_sent |-> c.usage.forms_sent + 1]]]

_increment_forms_sent(db, company_id, ts) ==
    LET c == _ensure_usage_period(db.companies[company_id], ts) IN
    [db EXCEPT !.companies[company_id] =
        [c EXCEPT !.usage.forms_sent = c.usage.forms_sent + 1]]

\* _mark_submit_token_used without its sweep.
SweepTokens_keeping_all(meta, ts) == meta

\* The registry after the lazy sweep of _mark_submit_token_used at time ts.
SweepTokens(meta, ts) ==
    [k \in {k \in DOMAIN meta : ~(ts - meta[k] > ttl_seconds)} |-> meta[k]]

\* _mark_submit_token_used: the db it leaves and the value it returns.
_mark_submit_token_used(db, token, ts) ==
    LET meta == SweepTokens(db.submit_tokens, ts) IN
    IF token \in DOMAIN meta
    THEN [db |-> [db EXCEPT !.submit_tokens = meta], used |-> TRUE]
    ELSE [db |-> [db EXCEPT !.submit_tokens =
                     [k \in DOMAIN meta \cup {token} |-> IF k = token THEN ts ELSE meta[k]]],
          used |-> FALSE]

subscription_active(company) ==
    IF DEV_BYPASS_SUBSCRIPTION THEN TRUE
    ELSE IF company.stripe_status \in {"active", "trialing"} THEN TRUE
    ELSE ENABLE_FREE_PLAN /\ _company_plan(company) = "free"

-----------------------------------------------------------------------------
(* float arithmetic *)

\* Python floats are IEEE-754 binary64 numbers.  Their products are computed
\* here bit for bit, on natural numbers of any size: sequences of 15-bit
\* limbs, lowest first, without leading zero limbs.
LimbBits == 15
LimbBase == 2^LimbBits

RECURSIVE BigTrim(_)
BigTrim(x) ==
    IF x = <<>> THEN x
    ELSE IF x[Len(x)] = 0 THEN BigTrim(SubSeq(x, 1, Len(x) - 1)) ELSE x

RECURSIVE BigFromInt(_)
BigFromInt(n) ==
    IF n = 0 THEN <<>> ELSE <<n % LimbBase>> \o BigFromInt(n \div LimbBase)

RECURSIVE BigToInt(_)
BigToInt(x) ==
    IF x = <<>> THEN 0 ELSE Head(x) + LimbBase * BigToInt(Tail(x))

BigLimb(x, j) == IF j >= 1 /\ j <= Len(x) THEN x[j] ELSE 0

RECURSIVE BigAddFrom(_, _, _, _)
BigAddFrom(x, y, j, carry) ==
    IF j > Len(x) /\ j > Len(y)
    THEN (IF carry = 0 THEN <<>> ELSE <<carry>>)
    ELSE LET s == BigLimb(x, j) + BigLimb(y, j) + carry
         IN <<s % LimbBase>> \o BigAddFrom(x, y, j + 1, s \div LimbBase)

BigAdd(x, y) == BigAddFrom(x, y, 1, 0)

RECURSIVE BigMulLimbFrom(_, _, _, _)
BigMulLimbFrom(x, d, j, carry) ==
    IF j > Len(x)
    THEN (IF carry = 0 THEN <<>> ELSE <<carry>>)
    ELSE LET p == x[j] * d + carry
         IN <<p % LimbBase>> \o BigMulLimbFrom(x, d, j + 1, p \div LimbBase)

BigMulLimb(x, d) == IF d = 0 THEN <<>> ELSE BigMulLimbFrom(x, d, 1, 0)

RECURSIVE BigMulFrom(_, _, _)
BigMulFrom(x, y, j) ==
    IF j > Len(y) THEN <<>>
    ELSE BigAdd(BigMulLimb(x, y[j]), <<0>> \o BigMulFrom(x, y, j + 1))

BigMul(x, y) == BigTrim(BigMulFrom(x, y, 1))

\* The quotient and the remainder of x by a number d below LimbBase.
RECURSIVE BigDivLimbFrom(_, _, _, _)
BigDivLimbFrom(x, d, j, rem) ==
    IF j = 0 THEN [q |-> <<>>, r |-> rem]
    ELSE LET n == rem * LimbBase + x[j]
             rest == BigDivLimbFrom(x, d, j - 1, n % d)
         IN [q |-> rest.q \o <<n \div d>>, r |-> rest.r]

BigDivLimb(x, d) ==
    LET qr == BigDivLimbFrom(x, d, Len(x), 0) IN [q |-> BigTrim(qr.q), r |-> qr.r]

RECURSIVE IntBitLen(_)
IntBitLen(n) == IF n = 0 THEN 0 ELSE 1 + IntBitLen(n \div 2)

BigBitLen(x) == IF x = <<>> THEN 0 ELSE LimbBits * (Len(x) - 1) + IntBitLen(x[Len(x)])

BigBit(x, i) == (BigLimb(x, i \div LimbBits + 1) \div 2^(i % LimbBits)) % 2

\* x shifted left by s bits.
BigShiftLeft(x, s) ==
    IF x = <<>> THEN x
    ELSE [j \in 1..(s \div LimbBits) |-> 0] \o BigMulLimb(x, 2^(s % LimbBits))

\* x shifted right by s bits, the bits shifted out dropped.
BigShiftRight(x, s) ==
    LET q == s \div LimbBits
        r == s % LimbBits
        n == IF Len(x) > q THEN Len(x) - q ELSE 0
    IN BigTrim([j \in 1..n |->
                  (BigLimb(x, q + j) \div 2^r)
                  + (BigLimb(x, q + j + 1) % 2^r) * 2^(LimbBits - r)])

\* Some bit of x below position s is set.
BigLowBits(x, s) == \E i \in 0..(s - 1) : BigBit(x, i) = 1

\* IEEE-754 binary64 values that are zero or positive and normal: m * 2^e
\* with m of exactly 53 bits, or m = <<>> for zero.
MantissaBits == 53
DoubleZero == [m |-> <<>>, e |-> 0]

\* The double nearest to x * 2^e, ties to even; `sticky` says that the exact
\* value lies above x * 2^e by less than one unit of x.
RoundToDouble(x, e, sticky) ==
    LET len == BigBitLen(x) IN
    IF len = 0 THEN DoubleZero
    ELSE IF len <= MantissaBits
    THEN [m |-> BigShiftLeft(x, MantissaBits - len), e |-> e - (MantissaBits - len)]
    ELSE LET s == len - MantissaBits
             kept == BigShiftRight(x, s)
             half == BigBit(x, s - 1) = 1
             below == sticky \/ BigLowBits(x, s - 1)
             up == half /\ (below \/ BigBit(kept, 0) = 1)
             m == IF up THEN BigAdd(kept, <<1>>) ELSE kept
         IN IF BigBitLen(m) > MantissaBits
            THEN [m |-> BigShiftRight(m, 1), e |-> e + s + 1]
            ELSE [m |-> m, e |-> e + s]

\* float(n) of an int n.
DoubleFromInt(n) == RoundToDouble(BigFromInt(n), 0, FALSE)

\* float("<n / 10^4 written in decimal>"): the double nearest to n / 10000.
DoubleFromDecimal(n) ==
    LET qr == BigDivLimb(BigShiftLeft(BigFromInt(n), 75), 10000)
    IN RoundToDouble(qr.q, -75, qr.r # 0)

\* x * y of two doubles.
DoubleMul(x, y) ==
    IF x.m = <<>> \/ y.m = <<>> THEN DoubleZero
    ELSE RoundToDouble(BigMul(x.m, y.m), x.e + y.e, FALSE)

\* int(x): the double cut to its whole part.
DoubleToInt(x) ==
    IF x.m = <<>> THEN 0
    ELSE IF x.e >= 0 THEN BigToInt(BigShiftLeft(x.m, x.e))
    ELSE BigToInt(BigShiftRight(x.m, -x.e))

\* x is a whole number.
DoubleIsWhole(x) == x.m = <<>> \/ x.e >= 0 \/ ~BigLowBits(x.m, -x.e)

-----------------------------------------------------------------------------
(* Report generation and delivery *)

\* int(os.getenv("MAX_REPORTS_PER_COMPANY", "50")): the deployment modelled
\* sets the variable to 2, so that a few submissions reach the cap.
MAX_REPORTS_PER_COMPANY == 2

\* str.strip() on the texts of the model.
Strip(s) == IF s = " " THEN "" ELSE s

\* What stands behind ai_report for one request: no API key or client
\* library; a call that raises; empty content; content that is no JSON; JSON
\* that is no object; an object the renderer cannot walk; an object whose
\* facts and calc_table rows all carry a source tag; an object in which one
\* of them carries none.
BackendOutcomes == {"unconfigured", "raises", "empty", "nonjson", "nonobject",
                    "malformed", "object", "untagged"}

\* The declared usable area as a submission posts it: absent, a number, text
\* that float() rejects, and text that float() reads as infinity.
Areas == {"", "120", "abc", "inf"}

\* The pricing policy of the tenant: empty, blank, or some text.
PricingTexts == {"", " ", "rates"}

\* The decimal numerals among the posted areas, by their value in
\* ten-thousandths of a square metre.
AreaScale == 10000
DecimalAreas ==
    ("1" :> 10000) @@ ("100" :> 1000000) @@ ("100.0001" :> 1000001)
    @@ ("120" :> 1200000) @@ ("8500" :> 85000000)

\* float(form.get("usable_area_m2", 0) or 0): n is the value of the numeral
\* in ten-thousandths; an absent area gives 0.
float(area) ==
    CASE area = ""    -> [raised |-> FALSE, inf |-> FALSE, n |-> 0]
      [] area \in DOMAIN DecimalAreas
                      -> [raised |-> FALSE, inf |-> FALSE, n |-> DecimalAreas[area]]
      [] area = "inf" -> [raised |-> FALSE, inf |-> TRUE, n |-> 0]
      [] OTHER        -> [raised |-> TRUE, inf |-> FALSE, n |-> 0]

\* BUILD_COST_M2_PLN["Standard"], the cost table's value when the submission
\* names no standard or one the table does not know.
BUILD_COST_M2_PLN_Standard == 6000

\* What a submission names as its standard and its region: nothing, the
\* keys of the two tables, and a text that is in neither.
Standards == {"", "Ekonomiczny", "Standard", "Premium", "other"}
Regions == {"", "Duze miasto", "Miasto 100k+", "Mniejsze miasto / okolice", "Wies", "other"}

\* BUILD_COST_M2_PLN.get(form.get("cost_standard") or "Standard", 6000)
BUILD_COST_M2_PLN(standard) ==
    CASE standard = "Ekonomiczny" -> 4500
      [] standard = "Premium" -> 8000
      [] OTHER -> BUILD_COST_M2_PLN_Standard

\* REGION_MULTIPLIER.get(form.get("region_type") or "Mniejsze miasto /
\* okolice", 1.0), in hundredths as the table writes it.
REGION_MULTIPLIER(region) ==
    CASE region = "Duze miasto" -> 115
      [] region = "Miasto 100k+" -> 105
      [] region = "Wies" -> 95
      [] OTHER -> 100

\* The float a literal with two decimals stands for.
Hundredths(n) == DoubleFromDecimal(n * (AreaScale \div 100))

\* The six document fields fallback_report looks for, in its order.
CriticalDocuments ==
    <<"mpzp_wz_extract", "map_for_design", "geotech_opinion",
      "power_conditions", "water_conditions", "sewage_conditions">>

\* What a form holds under a field: no such key, the empty string, False,
\* True (which submit_form stores for a ticked box), or a non-empty text.
FieldValues == {"absent", "empty", "false", "true", "text"}

\* The field is in the form with any value but the empty string, False.
Falsy_absent_only(v) == v = "absent"

\* not form.get(key)
Falsy(v) == v \in {"absent", "empty", "false"}

\* The form of a submission, as far as the estimate reads it.
Form(area, standard, region, docs) ==
    [usable_area_m2 |-> area, cost_standard |-> standard, region_type |-> region,
     docs |-> docs]

NoDocuments == [i \in DOMAIN CriticalDocuments |-> "absent"]

\* A form that gives its area and nothing else.
FormOf(area) == Form(area, "", "", NoDocuments)

\* "- (brak krytycznych brakow wykrytych)"
NoGapsLine == "- (no critical gaps)"

\* The call ended in an exception; `called` tells whether the backend had
\* been invoked by then.
Raises(called) ==
    [kind |-> "raised", build_low |-> 0, build_high |-> 0, unit_cost |-> 0,
     missing_list |-> <<>>, pricing_note |-> "",
     note |-> "", data |-> "none", called |-> called]

\* fallback_report leaving the totals at 0 when an area is given.
fallback_report_estimating_nothing(form, pricing_text) ==
    LET f == float(form.usable_area_m2) IN
    IF f.raised \/ f.inf THEN Raises(FALSE)
    ELSE [kind |-> "fallback", build_low |-> 0, build_high |-> 0, unit_cost |-> 0,
          missing_list |-> <<NoGapsLine>>,
          pricing_note |-> IF Strip(pricing_text) = "" THEN "not given" ELSE "attached",
          note |-> "", data |-> "none", called |-> FALSE]

\* fallback_report: the estimate it prints, or the exception of float() on
\* text that is no number and of int() on an infinite product.
\* build_low = int(area * base * mult * 0.9) and build_high = int(area * base
\* * mult * 1.15) are float products, taken left to right and cut to their
\* whole part.
fallback_report(form, pricing_text) ==
    LET f == float(form.usable_area_m2) IN
    IF f.raised \/ f.inf THEN Raises(FALSE)
    ELSE LET area == DoubleFromDecimal(f.n)
             base == DoubleFromInt(BUILD_COST_M2_PLN(form.cost_standard))
             mult == Hundredths(REGION_MULTIPLIER(form.region_type))
             falsy(i) == Falsy(form.docs[i])
             missing == SelectSeq([i \in DOMAIN CriticalDocuments |-> i], falsy)
             lines == [j \in DOMAIN missing |-> "- " \o CriticalDocuments[missing[j]]]
         IN [kind |-> "fallback",
             build_low |-> IF f.n = 0 THEN 0
                           ELSE DoubleToInt(DoubleMul(DoubleMul(DoubleMul(area, base), mult),
                                                      Hundredths(90))),
             build_high |-> IF f.n = 0 THEN 0
                            ELSE DoubleToInt(DoubleMul(DoubleMul(DoubleMul(area, base), mult),
                                                       Hundredths(115))),
             unit_cost |-> DoubleToInt(DoubleMul(base, mult)),
             missing_list |-> IF lines = <<>> THEN <<NoGapsLine>> ELSE lines,
             pricing_note |-> IF Strip(pricing_text) = "" THEN "not given" ELSE "attached",
             note |-> "", data |-> "none", called |-> FALSE]

\* A float as the properties read it: its whole part, and whether it is a
\* whole number.
Reading(x) == [whole |-> DoubleToInt(x), exact |-> DoubleIsWhole(x)]

\* The baseline ai_report computes for the prompt: unit_mid = base * mult,
\* unit_low = unit_mid * 0.90, unit_high = unit_mid * 1.15, and the three
\* totals area * unit, 0.0 without an area.
baseline(form) ==
    LET f == float(form.usable_area_m2)
        area == DoubleFromDecimal(f.n)
        base == DoubleFromInt(BUILD_COST_M2_PLN(form.cost_standard))
        mult == Hundredths(REGION_MULTIPLIER(form.region_type))
        unit_mid == DoubleMul(base, mult)
        unit_low == DoubleMul(unit_mid, Hundredths(90))
        unit_high == DoubleMul(unit_mid, Hundredths(115))
    IN [total_low |-> Reading(DoubleMul(area, unit_low)),
        total_mid |-> Reading(DoubleMul(area, unit_mid)),
        total_high |-> Reading(DoubleMul(area, unit_high))]

\* An amount of the structured report is a number of grosze (hundredths of
\* a zloty), which the schema keeps at 0 or above; NoAmount stands for a field
\* that is absent or null.
NoAmount == -1

\* _pln(x or 0): int(round(float(x))), the whole zlotys nearest to the
\* amount, a half going to the even neighbour; the digits are then grouped
\* by spaces, which changes no number.
_pln(x) ==
    IF x = NoAmount THEN 0
    ELSE LET q == x \div 100
             r == x % 100
         IN IF r < 50 THEN q
            ELSE IF r > 50 THEN q + 1
            ELSE IF q % 2 = 0 THEN q ELSE q + 1

\* fee_estimate of the structured report: the two totals and the amounts of
\* the calc_table rows.
FeeEstimate(total_low_pln, total_high_pln, calc_table) ==
    [total_low_pln |-> total_low_pln, total_high_pln |-> total_high_pln,
     calc_table |-> calc_table]

\* The object the backend returned: whether its facts and rows carry source
\* tags, and its fee estimate.
StructuredReport(sources, fee) == [sources |-> sources, fee_estimate |-> fee]

\* An object of the backend with some fee estimate.
BackendObject(sources) ==
    StructuredReport(sources, FeeEstimate(1200000, 1500000, <<400000, 800000>>))

RECURSIVE SumOf(_)
SumOf(amounts) ==
    IF amounts = <<>> THEN 0
    ELSE (IF Head(amounts) = NoAmount THEN 0 ELSE Head(amounts)) + SumOf(Tail(amounts))

\* A renderer that adds up the rows for the sum line.
render_architect_report_summing(data) ==
    [kind |-> "rendered", build_low |-> 0, build_high |-> 0, unit_cost |-> 0,
     missing_list |-> <<>>, pricing_note |-> "",
     fee_rows |-> [i \in DOMAIN data.fee_estimate.calc_table |->
                     _pln(data.fee_estimate.calc_table[i])],
     fee_sum |-> <<_pln(SumOf(data.fee_estimate.calc_table)),
                   _pln(SumOf(data.fee_estimate.calc_table))>>,
     note |-> "", data |-> data.sources, called |-> TRUE]

\* render_architect_report: the rendered text, which prints each source tag
\* as it finds it, an absent one as the empty string; each calc_table row
\* with _pln(amount_pln), and the sum line with _pln(total_low_pln) and
\* _pln(total_high_pln).
render_architect_report(data) ==
    [kind |-> "rendered", build_low |-> 0, build_high |-> 0, unit_cost |-> 0,
     missing_list |-> <<>>, pricing_note |-> "",
     fee_rows |-> [i \in DOMAIN data.fee_estimate.calc_table |->
                     _pln(data.fee_estimate.calc_table[i])],
     fee_sum |-> <<_pln(data.fee_estimate.total_low_pln),
                   _pln(data.fee_estimate.total_high_pln)>>,
     note |-> "", data |-> data.sources, called |-> TRUE]

\* ai_report: what it returns, or that it raised, for a backend outcome and a
\* form.  The area is parsed before the try block; inside it every
\* exception, and every content that is no JSON object, leads to
\* fallback_report plus an "[AI ERROR ...]" note; an object is rendered.
ai_report(backend, form, pricing_text) ==
    IF backend = "unconfigured" THEN fallback_report(form, pricing_text)
    ELSE IF float(form.usable_area_m2).raised THEN Raises(FALSE)
    ELSE LET degraded(note) ==
                 LET fb == fallback_report(form, pricing_text) IN
                 IF fb.kind = "raised" THEN Raises(TRUE)
                 ELSE [fb EXCEPT !.note = note, !.called = TRUE]
         IN CASE backend \in {"raises", "nonjson", "malformed"} -> degraded("exception")
              [] backend \in {"empty", "nonobject"} -> degraded("invalid JSON")
              [] backend = "untagged" -> render_architect_report(BackendObject("untagged"))
              [] OTHER -> render_architect_report(BackendObject("tagged"))

\* What the handler keeps of a report: the kind of text that is mailed and
\* stored, and whether the backend was invoked.
Outline(report) ==
    [kind |-> CASE report.kind = "raised" -> "raised"
                [] report.kind = "rendered" -> "rendered"
                [] report.note = "" -> "fallback"
                [] OTHER -> "fallback+error",
     called |-> report.called]

\* The outlines of what ai_report gives while the backend answers with an
\* object, for a submission whose declared area is a number or absent.
WorkingReports ==
    {Outline(ai_report(backend, FormOf(area), pricing_text)) :
        backend \in {"object", "untagged"}, area \in {"", "120"},
        pricing_text \in PricingTexts}

\* The outlines of what ai_report gives for any backend and declared area.
PossibleReports ==
    {Outline(ai_report(backend, FormOf(area), pricing_text)) :
        backend \in BackendOutcomes, area \in Areas, pricing_text \in PricingTexts}

\* What one channel does with one message.
ResendOutcomes == {"2xx", "non2xx", "exception", "not_configured"}
SmtpOutcomes == {"ok", "error", "not_configured"}

send_email_via_resend(outcome) == outcome = "2xx"
send_email_via_smtp(outcome) == outcome = "ok"

\* A call of send_email at its entry.
SendStart(to_email, resend, smtp) ==
    [pc |-> "start", to |-> to_email, resend |-> resend, smtp |-> smtp,
     resend_calls |-> 0, smtp_calls |-> 0, ret |-> FALSE]

\* send_email giving up after the primary channel.
SendStep_primary_only(m) ==
    CASE m.pc = "start" ->
            IF Strip(m.to) = "" THEN [m EXCEPT !.pc = "done", !.ret = FALSE]
            ELSE [m EXCEPT !.pc = "resend"]
      [] m.pc = "resend" ->
            [m EXCEPT !.pc = "done", !.ret = send_email_via_resend(m.resend),
                      !.resend_calls = @ + 1]
      [] OTHER -> m

\* send_email trying the primary channel a second time after a failure.
SendStep_retrying(m) ==
    CASE m.pc = "start" ->
            IF Strip(m.to) = "" THEN [m EXCEPT !.pc = "done", !.ret = FALSE]
            ELSE [m EXCEPT !.pc = "resend"]
      [] m.pc = "resend" ->
            IF send_email_via_resend(m.resend)
            THEN [m EXCEPT !.pc = "done", !.ret = TRUE, !.resend_calls = @ + 1]
            ELSE IF m.resend_calls = 0
            THEN [m EXCEPT !.resend_calls = @ + 1]
            ELSE [m EXCEPT !.pc = "smtp", !.resend_calls = @ + 1]
      [] m.pc = "smtp" ->
            [m EXCEPT !.pc = "done", !.ret = send_email_via_smtp(m.smtp),
                      !.smtp_calls = @ + 1]
      [] OTHER -> m

\* One statement group of send_email: the recipient test, the primary
\* channel, the secondary channel.
SendStep(m) ==
    CASE m.pc = "start" ->
            IF Strip(m.to) = "" THEN [m EXCEPT !.pc = "done", !.ret = FALSE]
            ELSE [m EXCEPT !.pc = "resend"]
      [] m.pc = "resend" ->
            IF send_email_via_resend(m.resend)
            THEN [m EXCEPT !.pc = "done", !.ret = TRUE, !.resend_calls = @ + 1]
            ELSE [m EXCEPT !.pc = "smtp", !.resend_calls = @ + 1]
      [] m.pc = "smtp" ->
            [m EXCEPT !.pc = "done", !.ret = send_email_via_smtp(m.smtp),
                      !.smtp_calls = @ + 1]
      [] OTHER -> m

\* send_email run to its return.
send_email(to_email, resend, smtp) ==
    SendStep(SendStep(SendStep(SendStart(to_email, resend, smtp))))

Truncate(s, n) == SubSeq(s, 1, IF Len(s) < n THEN Len(s) ELSE n)

\* max(1, int(MAX_REPORTS_PER_COMPANY or 50)): the length the history is cut to.
HistoryCap ==
    Max(1, IF MAX_REPORTS_PER_COMPANY = 0 THEN 50 ELSE MAX_REPORTS_PER_COMPANY)

\* The record _store_report builds for the request rid at time ts.
\* A ReportRecord that says the mail was sent whatever send_email returned.
ReportRecord_marking_sent(rid, ts, report_text, architect, email_sent) ==
    [id |-> rid, created_at |-> ts,
     architect_id |-> architect.id,
     architect_email |-> architect.email,
     delivery_id |-> rid, email_sent |-> TRUE,
     report |-> report_text]

ReportRecord(rid, ts, report_text, architect, email_sent) ==
    [id |-> rid, created_at |-> ts,
     architect_id |-> architect.id,
     architect_email |-> architect.email,
     delivery_id |-> rid, email_sent |-> email_sent,
     report |-> report_text]

\* _store_report putting the new record behind the records it finds.
_store_report_appending(db, company_id, rid, ts, report_text, architect, email_sent) ==
    IF company_id \notin DOMAIN db.companies THEN db
    ELSE [db EXCEPT !.companies[company_id].reports =
             Truncate(@ \o <<ReportRecord(rid, ts, report_text, architect, email_sent)>>,
                      HistoryCap)]

\* _store_report for the request rid at time ts.
_store_report(db, company_id, rid, ts, report_text, architect, email_sent) ==
    IF company_id \notin DOMAIN db.companies THEN db
    ELSE [db EXCEPT !.companies[company_id].reports =
             Truncate(<<ReportRecord(rid, ts, report_text, architect, email_sent)>> \o @,
                      HistoryCap)]

-----------------------------------------------------------------------------
(* POST /f/{token}: submit_form *)

NoCompany == Company("", "", "", 0, <<>>)
NoArchitect == Architect("", "", "")
NoUsage == [period |-> -1, forms_sent |-> -1]

IdleReq ==
    [pc |-> "idle", token |-> "", submit_token |-> "",
     company |-> NoCompany, architect |-> NoArchitect, db |-> EmptyDb,
     status |-> "",
     \* history of the request, read by the properties only
     replay |-> FALSE, claim |-> "none", late |-> FALSE, ev |-> <<>>, crashedAt |-> "",
     remaining |-> -1, incrUsage |-> NoUsage, savedUsage |-> NoUsage]

\* The request has returned `status`; its local variables are gone.
Respond(q, status) ==
    [q EXCEPT !.pc = "done", !.status = status,
              !.company = NoCompany, !.architect = NoArchitect, !.db = EmptyDb,
              !.remaining = -1, !.incrUsage = NoUsage, !.savedUsage = NoUsage]

\* find_by_token: the (company, architect) pairs carrying the link token.
find_by_token(token) ==
    LET db == _load_db IN
    UNION {{<<db.companies[c], db.companies[c].architects[i]>> :
               i \in {j \in DOMAIN db.companies[c].architects :
                         db.companies[c].architects[j].token = token}} :
           c \in DOMAIN db.companies}

\* The link tokens of the architects the program started with.
IssuedTokens ==
    {InitialDb.companies[c].architects[i].token :
        c \in CompanyIds, i \in {1}}

InFlight == {"load", "form", "incr", "work"}
Quiet == \A q \in Requests : req[q].pc \notin InFlight

\* submit_form going on without the test of subscription_active.
submit_form_find_skipping_access(r, token, submit_token) ==
    /\ req[r].pc = "idle"
    /\ \A q \in Requests : q < r => req[q].pc # "idle"
    /\ LET found == find_by_token(token)
           unread == [req[r] EXCEPT !.token = token]
           q == [req[r] EXCEPT !.token = token, !.submit_token = submit_token,
                               !.replay = submit_token \in DOMAIN SweepTokens(_load_db.submit_tokens, now)]
       IN IF found = {} THEN req' = [req EXCEPT ![r] = Respond(unread, "404")]
          ELSE \E f \in found :
                 req' = [req EXCEPT ![r] =
                           [q EXCEPT !.pc = "load", !.company = f[1], !.architect = f[2]]]
    /\ UNCHANGED <<now, disk, claimedEver, probe>>

\* The POST arrives: find_by_token and subscription_active.
submit_form_find(r, token, submit_token) ==
    /\ req[r].pc = "idle"
    /\ \A q \in Requests : q < r => req[q].pc # "idle"
    /\ LET found == find_by_token(token)
           \* the body of a POST answered 404 or 403 is never read
           unread == [req[r] EXCEPT !.token = token]
           q == [req[r] EXCEPT !.token = token, !.submit_token = submit_token,
                               !.replay = submit_token \in DOMAIN SweepTokens(_load_db.submit_tokens, now)]
       IN IF found = {} THEN req' = [req EXCEPT ![r] = Respond(unread, "404")]
          ELSE \E f \in found :
                 IF ~subscription_active(f[1])
                 THEN req' = [req EXCEPT ![r] = Respond(unread, "403")]
                 ELSE req' = [req EXCEPT ![r] =
                                [q EXCEPT !.pc = "load", !.company = f[1],
                                          !.architect = f[2]]]
    /\ UNCHANGED <<now, disk, claimedEver, probe>>

\* submit_form counting the submission before it tests the quota.
submit_form_gate_charging(r) ==
    /\ req[r].pc = "load"
    /\ LET db == _load_db
           company_id == req[r].company.id
       IN IF company_id = "" \/ company_id \notin DOMAIN db.companies
          THEN req' = [req EXCEPT ![r] = Respond(@, "500")] /\ UNCHANGED disk
          ELSE LET c == _ensure_usage_period(db.companies[company_id], now)
                   rem == _forms_remaining(c, now)
               IN IF rem <= 0
                  THEN /\ req' = [req EXCEPT ![r] = Respond([@ EXCEPT !.remaining = rem], "429")]
                       /\ disk' = _increment_forms_sent(db, company_id, now)
                  ELSE /\ req' = [req EXCEPT ![r] =
                                    [@ EXCEPT !.pc = "form", !.remaining = rem,
                                              !.db = [db EXCEPT !.companies[company_id] = c]]]
                       /\ UNCHANGED disk
    /\ UNCHANGED <<now, claimedEver, probe>>

\* db = _load_db(), the tenant test and the quota gate, up to await request.form().
submit_form_gate(r) ==
    /\ req[r].pc = "load"
    /\ LET db == _load_db
           company_id == req[r].company.id
       IN IF company_id = "" \/ company_id \notin DOMAIN db.companies
          THEN req' = [req EXCEPT ![r] = Respond(@, "500")]
          ELSE LET c == _ensure_usage_period(db.companies[company_id], now)
                   rem == _forms_remaining(c, now)
               IN IF rem <= 0
                  THEN req' = [req EXCEPT ![r] = Respond([@ EXCEPT !.remaining = rem], "429")]
                  ELSE req' = [req EXCEPT ![r] =
                                 [@ EXCEPT !.pc = "form", !.remaining = rem,
                                           !.db = [db EXCEPT !.companies[company_id] = c]]]
    /\ UNCHANGED <<now, disk, claimedEver, probe>>

\* submit_form going on after a first claim without _save_db(db).
submit_form_claim_unsaved(r) ==
    /\ req[r].pc = "form"
    /\ LET q == req[r]
           tok == q.submit_token
           m == _mark_submit_token_used(q.db, tok, now)
           late == tok \in claimedEver
       IN IF tok = ""
          THEN /\ req' = [req EXCEPT ![r] = [q EXCEPT !.pc = "incr"]]
               /\ UNCHANGED claimedEver
          ELSE IF m.used
          THEN /\ req' = [req EXCEPT ![r] =
                            Respond([q EXCEPT !.claim = "used", !.late = late], "duplicate")]
               /\ UNCHANGED claimedEver
          ELSE /\ req' = [req EXCEPT ![r] =
                            [q EXCEPT !.pc = "incr", !.db = m.db, !.claim = "new",
                                      !.late = late, !.ev = @ \o <<"claim">>]]
               /\ claimedEver' = claimedEver \cup {tok}
    /\ UNCHANGED <<now, disk, probe>>

\* submit_form handing every submission token, the empty one too, to the guard.
submit_form_claim_guarding_empty(r) ==
    /\ req[r].pc = "form"
    /\ LET q == req[r]
           tok == q.submit_token
           m == _mark_submit_token_used(q.db, tok, now)
           late == tok \in claimedEver
       IN IF m.used
          THEN /\ req' = [req EXCEPT ![r] =
                            Respond([q EXCEPT !.claim = "used", !.late = late], "duplicate")]
               /\ UNCHANGED <<disk, claimedEver>>
          ELSE /\ req' = [req EXCEPT ![r] =
                            [q EXCEPT !.pc = "incr", !.db = m.db, !.claim = "new",
                                      !.late = late, !.ev = @ \o <<"claim", "save">>,
                                      !.savedUsage = m.db.companies[q.company.id].usage]]
               /\ disk' = m.db
               /\ claimedEver' = claimedEver \cup {tok}
    /\ UNCHANGED <<now, probe>>

\* After await request.form(): the idempotency guard and its save.
submit_form_claim(r) ==
    /\ req[r].pc = "form"
    /\ LET q == req[r]
           tok == q.submit_token
           m == _mark_submit_token_used(q.db, tok, now)
           late == tok \in claimedEver
       IN IF tok = ""
          THEN /\ req' = [req EXCEPT ![r] = [q EXCEPT !.pc = "incr"]]
               /\ UNCHANGED <<disk, claimedEver>>
          ELSE IF m.used
          THEN /\ req' = [req EXCEPT ![r] =
                            Respond([q EXCEPT !.claim = "used", !.late = late], "duplicate")]
               /\ UNCHANGED <<disk, claimedEver>>
          ELSE /\ req' = [req EXCEPT ![r] =
                            [q EXCEPT !.pc = "incr", !.db = m.db, !.claim = "new",
                                      !.late = late, !.ev = @ \o <<"claim", "save">>,
                                      !.savedUsage = m.db.companies[q.company.id].usage]]
               /\ disk' = m.db
               /\ claimedEver' = claimedEver \cup {tok}
    /\ UNCHANGED <<now, probe>>

\* submit_form incrementing the usage without _save_db(db).
submit_form_increment_unsaved(r) ==
    /\ req[r].pc = "incr"
    /\ LET q == req[r]
           db == _increment_forms_sent(q.db, q.company.id, now)
       IN req' = [req EXCEPT ![r] =
                    [q EXCEPT !.pc = "work", !.db = db, !.ev = @ \o <<"incr">>,
                              !.incrUsage = db.companies[q.company.id].usage]]
    /\ UNCHANGED <<now, disk, claimedEver, probe>>

\* _increment_forms_sent(db, company_id); _save_db(db)
submit_form_increment(r) ==
    /\ req[r].pc = "incr"
    /\ LET q == req[r]
           db == _increment_forms_sent(q.db, q.company.id, now)
       IN /\ req' = [req EXCEPT ![r] =
                       [q EXCEPT !.pc = "work", !.db = db, !.ev = @ \o <<"incr", "save">>,
                                 !.incrUsage = db.companies[q.company.id].usage,
                                 !.savedUsage = db.companies[q.company.id].usage]]
          /\ disk' = db
    /\ UNCHANGED <<now, claimedEver, probe>>

\* What the history save does.
StoreOutcomes == {"ok", "fails"}

\* submit_form calling send_email whatever the architect record holds.
Delivery_unconditional(architect, resend, smtp) ==
    [called |-> TRUE, sent |-> send_email(architect.email, resend, smtp).ret]

\* if architect.get("email"): sent = send_email(...); else sent stays False.
Delivery(architect, resend, smtp) ==
    [called |-> architect.email # "",
     sent |-> IF architect.email # ""
              THEN send_email(architect.email, resend, smtp).ret ELSE FALSE]

\* submit_form answering an error when the mail was not sent.
submit_form_finish_failing_undelivered(r, rep, delivery, store) ==
    LET q == req[r]
        gen == IF rep.called THEN <<"gen">> ELSE <<>>
        send == IF delivery.called THEN <<"send">> ELSE <<>>
        db == _store_report(q.db, q.company.id, r, now, rep.kind, q.architect,
                            delivery.sent)
    IN IF rep.kind = "raised" \/ ~delivery.sent
       THEN /\ req' = [req EXCEPT ![r] = Respond([q EXCEPT !.ev = @ \o gen \o send], "500")]
            /\ UNCHANGED disk
       ELSE IF store = "fails"
       THEN /\ req' = [req EXCEPT ![r] =
                         Respond([q EXCEPT !.ev = @ \o gen \o send], "accepted")]
            /\ UNCHANGED disk
       ELSE /\ req' = [req EXCEPT ![r] =
                         Respond([q EXCEPT !.ev = @ \o gen \o send \o <<"store", "save">>],
                                 "accepted")]
            /\ disk' = db

\* submit_form from report = ai_report(...) to its return: send_email(...)
\* when the architect has an address; _store_report(...) and _save_db(db)
\* inside try/except; the acknowledgment.  An exception of ai_report leaves
\* the handler, which the server answers with 500.  The two external calls
\* read and write nothing of the store, so they are taken together with the
\* save that follows them.
submit_form_finish(r, rep, delivery, store) ==
    LET q == req[r]
        gen == IF rep.called THEN <<"gen">> ELSE <<>>
        send == IF delivery.called THEN <<"send">> ELSE <<>>
        db == _store_report(q.db, q.company.id, r, now, rep.kind, q.architect,
                            delivery.sent)
    IN IF rep.kind = "raised"
       THEN /\ req' = [req EXCEPT ![r] = Respond([q EXCEPT !.ev = @ \o gen], "500")]
            /\ UNCHANGED disk
       ELSE IF store = "fails"
       THEN /\ req' = [req EXCEPT ![r] =
                         Respond([q EXCEPT !.ev = @ \o gen \o send], "accepted")]
            /\ UNCHANGED disk
       ELSE /\ req' = [req EXCEPT ![r] =
                         Respond([q EXCEPT !.ev = @ \o gen \o send \o <<"store", "save">>],
                                 "accepted")]
            /\ disk' = db

\* The rest of submit_form while the backend answers with an object and the
\* store is writable, for a submission whose declared area is a number or
\* absent; the mail channels behave in any way.
submit_form_report(r) ==
    /\ req[r].pc = "work"
    /\ \E rep \in WorkingReports,
          delivery \in {Delivery(req[r].architect, resend, smtp) :
                           resend \in ResendOutcomes, smtp \in SmtpOutcomes} :
         submit_form_finish(r, rep, delivery, "ok")
    /\ UNCHANGED <<now, claimedEver, probe>>

\* The rest of submit_form for any backend, any declared area, any behaviour
\* of the mail channels and of the history save.
submit_form_report_any(r) ==
    /\ req[r].pc = "work"
    /\ \E rep \in PossibleReports,
          delivery \in {Delivery(req[r].architect, resend, smtp) :
                           resend \in ResendOutcomes, smtp \in SmtpOutcomes},
          store \in StoreOutcomes :
         submit_form_finish(r, rep, delivery, store)
    /\ UNCHANGED <<now, claimedEver, probe>>

\* The worker process dies while the request is being served.
Crash(r) ==
    /\ req[r].pc \in InFlight
    /\ Cardinality({q \in Requests : req[q].pc = "crashed"}) < MaxCrashes
    /\ req' = [req EXCEPT ![r] = [Respond(@, "") EXCEPT !.pc = "crashed",
                                                        !.crashedAt = req[r].pc,
                                                        !.incrUsage = req[r].incrUsage,
                                                        !.savedUsage = req[r].savedUsage]]
    /\ UNCHANGED <<now, disk, claimedEver, probe>>

\* The data file is lost or damaged from outside the program.
FileDamaged ==
    /\ disk # UnreadableFile
    /\ disk' = UnreadableFile
    /\ UNCHANGED <<now, req, claimedEver, probe>>

\* Time passes.
Tick ==
    /\ \E t \in Instants : t > now /\ now' = t
    /\ UNCHANGED <<disk, req, claimedEver, probe>>

NoProbe == [kind |-> "none"]

InitSystem ==
    /\ now = 0
    /\ disk = InitialDb
    /\ req = [r \in Requests |-> IdleReq]
    /\ claimedEver = {}

Init == InitSystem /\ probe = NoProbe

Arrive == \E r \in Requests, token \in LinkTokens, st \in SubmitTokens :
              submit_form_find(r, token, st)
Gate == \E r \in Requests : submit_form_gate(r)
Claim == \E r \in Requests : submit_form_claim(r)
Increment == \E r \in Requests : submit_form_increment(r)
Report == \E r \in Requests : submit_form_report(r)
Crashes == \E r \in Requests : Crash(r)

Serve == Gate \/ Claim \/ Increment \/ Report \/ Crashes

Next == Arrive \/ Serve

\* Requests served concurrently (several workers, or one event loop that
\* switches requests at await request.form()).
Spec == Init /\ [][Next]_vars

\* A POST arrives when no other request is being served.
submit_form_alone(r, token, submit_token) ==
    Quiet /\ submit_form_find(r, token, submit_token)

ArriveAlone == \E r \in Requests, token \in LinkTokens, st \in SubmitTokens :
                   submit_form_alone(r, token, st)

NextSeq == ArriveAlone \/ Serve \/ Tick

\* Requests served one after the other while time passes.
SpecSeq == Init /\ [][NextSeq]_vars

\* The data file is read as it is found: here the architect of the paying
\* tenant is a record without an address, which add_architect would not have
\* written.
DbWithoutAddress ==
    [InitialDb EXCEPT !.companies["c2"].architects = <<Architect("a2", "", "k2")>>]

InitWork ==
    /\ now = 0
    /\ disk = DbWithoutAddress
    /\ req = [r \in Requests |-> IdleReq]
    /\ claimedEver = {}
    /\ probe = NoProbe

ReportAny == \E r \in Requests : submit_form_report_any(r)

NextWork == ArriveAlone \/ Gate \/ Claim \/ Increment \/ ReportAny

\* Requests served one after the other, with every behaviour of the backend,
\* the mail channels and the history save, and every declared area.
SpecWork == InitWork /\ [][NextWork]_vars

NextStore == ArriveAlone \/ Gate \/ Claim \/ Increment \/ Report \/ FileDamaged

\* Requests served one after the other while the data file may be damaged at
\* any moment.
SpecStore == Init /\ [][NextStore]_vars

\* The submission token of a POST that shares its token with no other POST.
FreshToken(r) == "t" \o ToString(r)

\* A POST arrives whose form carries a submission token of its own.
ArriveDistinct == \E r \in Requests, token \in LinkTokens :
                      submit_form_find(r, token, FreshToken(r))

NextDistinct == ArriveDistinct \/ Gate \/ Claim \/ Increment \/ Report

\* Requests served concurrently, each with a submission token of its own.
SpecDistinct == Init /\ [][NextDistinct]_vars


\* A POST arrives when no other request is being served, with no submission
\* token, with one that other POSTs carry too, or with one of its own.
ArriveAloneAnyToken ==
    \E r \in Requests, token \in LinkTokens :
        \E st \in SubmitTokens \cup {FreshToken(r)} : submit_form_alone(r, token, st)

NextRegistry == ArriveAloneAnyToken \/ Gate \/ Claim \/ Increment \/ Report \/ Tick

\* Requests served one after the other, with equal and with different
\* submission tokens, while time passes.
SpecRegistry == Init /\ [][NextRegistry]_vars

-----------------------------------------------------------------------------
(* _forms_remaining called on any tenant record *)

ProbePlans == {"free", "monthly", "yearly", "none"}
ProbeSent == {0, 1, FREE_FORMS_PER_MONTH_LIMIT, FREE_FORMS_PER_MONTH_LIMIT + 1,
              FORMS_PER_MONTH_LIMIT, FORMS_PER_MONTH_LIMIT + 1}
ProbeTimes == {0, MonthLen - 1, MonthLen}

ProbeCompany(plan, status, period, sent) ==
    [Company("c", plan, status, sent, <<>>) EXCEPT !.usage.period = period]

InitQuota ==
    /\ InitSystem
    /\ \E plan \in ProbePlans, status \in {"inactive", "active"},
          period \in {_period_key(t) : t \in ProbeTimes}, sent \in ProbeSent,
          ts \in ProbeTimes :
         probe = [kind |-> "quota", pc |-> "call", ts |-> ts,
                  company |-> ProbeCompany(plan, status, period, sent),
                  before |-> ProbeCompany(plan, status, period, sent), ret |-> 0]

\* remaining = _forms_remaining(company)
CallFormsRemaining ==
    /\ probe.kind = "quota" /\ probe.pc = "call"
    /\ probe' = [probe EXCEPT !.pc = "returned",
                              !.company = _ensure_usage_period(probe.company, probe.ts),
                              !.ret = _forms_remaining(probe.company, probe.ts)]
    /\ UNCHANGED <<now, disk, req, claimedEver>>

NextQuota == CallFormsRemaining

SpecQuota == InitQuota /\ [][NextQuota]_vars

-----------------------------------------------------------------------------
(* send_email called with any recipient and any behaviour of the channels *)

ProbeEmails == {"", " ", "a1@x", "a2@x"}

InitSend ==
    /\ InitSystem
    /\ \E to \in ProbeEmails, resend \in ResendOutcomes, smtp \in SmtpOutcomes :
         probe = [kind |-> "send", m |-> SendStart(to, resend, smtp)]

\* send_email runs its next statement group.
SendAdvance ==
    /\ probe.kind = "send" /\ probe.m.pc # "done"
    /\ probe' = [probe EXCEPT !.m = SendStep(@)]
    /\ UNCHANGED <<now, disk, req, claimedEver>>

NextSend == SendAdvance

SpecSend == InitSend /\ [][NextSend]_vars

\* Each channel call returns: urlopen and smtplib.SMTP are given timeout=20,
\* so a call of send_email that has started keeps running to its return.
SpecSendFair == InitSend /\ [][NextSend]_vars /\ WF_vars(NextSend)

-----------------------------------------------------------------------------
(* ai_report called with any backend behaviour, declared area and pricing text *)

InitReport ==
    /\ InitSystem
    /\ \E backend \in BackendOutcomes, area \in Areas, pricing_text \in PricingTexts :
         probe = [kind |-> "report", pc |-> "call", backend |-> backend,
                  area |-> area, pricing_text |-> pricing_text, ret |-> Raises(FALSE)]

\* report = ai_report(form_clean, pricing_text=pricing_text, ...)
CallAiReport ==
    /\ probe.kind = "report" /\ probe.pc = "call"
    /\ probe' = [probe EXCEPT !.pc = "over",
                              !.ret = ai_report(probe.backend, FormOf(probe.area),
                                                probe.pricing_text)]
    /\ UNCHANGED <<now, disk, req, claimedEver>>

NextReport == CallAiReport

SpecReport == InitReport /\ [][NextReport]_vars

-----------------------------------------------------------------------------
(* _store_report called again and again on one store *)

MaxStores == 4

\* The tenants _store_report is called for: two that exist and one that does not.
StoreTargets == {"c1", "c2", "zz"}

InitHistory ==
    /\ InitSystem
    /\ probe = [kind |-> "history", db |-> InitialDb, calls |-> <<>>]

\* rid = _store_report(db, company_id, report_text=..., architect=...,
\* email_sent=...): the k-th call makes the record k at time k.
CallStoreReport ==
    /\ probe.kind = "history" /\ Len(probe.calls) < MaxStores
    /\ \E company_id \in StoreTargets, email_sent \in BOOLEAN :
         LET k == Len(probe.calls) + 1
             architects == IF company_id \in CompanyIds
                           THEN probe.db.companies[company_id].architects
                           ELSE <<NoArchitect>>
         IN probe' = [probe EXCEPT
                        !.db = _store_report(@, company_id, k, k, "rendered",
                                             architects[1], email_sent),
                        !.calls = Append(@, company_id)]
    /\ UNCHANGED <<now, disk, req, claimedEver>>

NextHistory == CallStoreReport

SpecHistory == InitHistory /\ [][NextHistory]_vars

-----------------------------------------------------------------------------
(* The three readers of a tenant's usage, called on any tenant record *)

\* GET /dashboard up to the numbers it shows: _ensure_usage_period(company);
\* sent = company.usage.forms_sent; remaining = _forms_remaining(company).
dashboard(company, ts) ==
    LET c == _ensure_usage_period(company, ts) IN
    [company |-> c, sent |-> c.usage.forms_sent, remaining |-> _forms_remaining(c, ts)]

UsageReaders == {"submit_form", "_increment_forms_sent", "dashboard"}

InitUsage ==
    /\ InitSystem
    /\ \E plan \in ProbePlans, period \in {_period_key(t) : t \in ProbeTimes},
          sent \in ProbeSent, ts \in ProbeTimes, reader \in UsageReaders :
         probe = [kind |-> "usage", pc |-> "call", reader |-> reader, ts |-> ts,
                  before |-> ProbeCompany(plan, "active", period, sent),
                  company |-> ProbeCompany(plan, "active", period, sent),
                  sent |-> -1, remaining |-> -1]

\* submit_form: c = db["companies"][company_id]; _ensure_usage_period(c);
\* _forms_remaining(c)
ReadAtGate ==
    /\ probe.kind = "usage" /\ probe.pc = "call" /\ probe.reader = "submit_form"
    /\ LET c == _ensure_usage_period(probe.company, probe.ts)
       IN probe' = [probe EXCEPT !.pc = "returned", !.company = c,
                                 !.remaining = _forms_remaining(c, probe.ts)]
    /\ UNCHANGED <<now, disk, req, claimedEver>>

\* _increment_forms_sent(db, company_id)
ReadAtIncrement ==
    /\ probe.kind = "usage" /\ probe.pc = "call"
    /\ probe.reader = "_increment_forms_sent"
    /\ LET db == [EmptyDb EXCEPT !.companies = [c \in {"c"} |-> probe.company]]
       IN probe' = [probe EXCEPT
                      !.pc = "returned",
                      !.company = _increment_forms_sent(db, "c", probe.ts).companies["c"]]
    /\ UNCHANGED <<now, disk, req, claimedEver>>

\* GET /dashboard
ReadAtDashboard ==
    /\ probe.kind = "usage" /\ probe.pc = "call" /\ probe.reader = "dashboard"
    /\ LET d == dashboard(probe.company, probe.ts)
       IN probe' = [probe EXCEPT !.pc = "returned", !.company = d.company,
                                 !.sent = d.sent, !.remaining = d.remaining]
    /\ UNCHANGED <<now, disk, req, claimedEver>>

NextUsage == ReadAtGate \/ ReadAtIncrement \/ ReadAtDashboard

SpecUsage == InitUsage /\ [][NextUsage]_vars

-----------------------------------------------------------------------------
(* The architects of a tenant: add_architect and delete_architect *)

MaxAdded == 1

\* What the dashboard form sends as the architect's e-mail.
AddedEmails == {"", "n@x"}

\* The ids delete_architect is asked to delete.
ArchitectIds == {"a1", "a4", "zz"}

\* POST /dashboard/architect/add in the session of company cid: nothing
\* without an e-mail; else the architect gets a fresh id and a fresh link
\* token, is appended to the tenant loaded from the file, and the file is saved.
add_architect(cid, email) ==
    /\ probe.kind = "architects" /\ probe.added < MaxAdded
    /\ cid \in DOMAIN _load_db.companies
    /\ IF email = "" THEN UNCHANGED <<disk, probe>>
       ELSE LET n == ToString(Cardinality(IssuedTokens) + probe.added + 1)
                a == Architect("a" \o n, email, "k" \o n)
            IN /\ disk' = [_load_db EXCEPT !.companies[cid].architects = Append(@, a)]
               /\ probe' = [probe EXCEPT !.added = @ + 1]
    /\ UNCHANGED <<now, req, claimedEver>>

\* GET /dashboard/architect/delete?id=... in the session of company cid.
delete_architect(cid, id) ==
    /\ probe.kind = "architects"
    /\ cid \in DOMAIN _load_db.companies
    /\ LET keeps(a) == a.id # id
       IN disk' = [_load_db EXCEPT !.companies[cid].architects = SelectSeq(@, keeps)]
    /\ UNCHANGED <<now, req, claimedEver, probe>>

InitArchitects ==
    /\ InitSystem
    /\ probe = [kind |-> "architects", added |-> 0]

AddArchitect == \E cid \in CompanyIds, email \in AddedEmails : add_architect(cid, email)

DeleteArchitect == \E cid \in CompanyIds, id \in ArchitectIds : delete_architect(cid, id)

NextArchitects ==
    ArriveAlone \/ Gate \/ Claim \/ Increment \/ Report \/ AddArchitect \/ DeleteArchitect

\* Submissions served one at a time while tenants add and delete architects
\* on their dashboards.
SpecArchitects == InitArchitects /\ [][NextArchitects]_vars

-----------------------------------------------------------------------------
(* The estimate of fallback_report and the baseline of ai_report *)

\* The areas an estimate is made for: none, and the decimal numerals.
EstimateAreas == {""} \cup DOMAIN DecimalAreas

InitEstimate ==
    /\ InitSystem
    /\ \E standard \in Standards, region \in Regions, pricing_text \in PricingTexts :
         probe = [kind |-> "estimate", pc |-> "call", standard |-> standard,
                  region |-> region, pricing_text |-> pricing_text,
                  ret |-> [a \in EstimateAreas |-> Raises(FALSE)],
                  base |-> [a \in EstimateAreas |-> baseline(FormOf(""))]]

\* fallback_report(form, pricing_text) and the baseline of ai_report, for
\* forms that name the same standard and region and differ in their area.
CallEstimator ==
    /\ probe.kind = "estimate" /\ probe.pc = "call"
    /\ LET form(a) == Form(a, probe.standard, probe.region, NoDocuments)
       IN probe' = [probe EXCEPT
                      !.pc = "returned",
                      !.ret = [a \in EstimateAreas |->
                                 fallback_report(form(a), probe.pricing_text)],
                      !.base = [a \in EstimateAreas |-> baseline(form(a))]]
    /\ UNCHANGED <<now, disk, req, claimedEver>>

NextEstimate == CallEstimator

SpecEstimate == InitEstimate /\ [][NextEstimate]_vars

-----------------------------------------------------------------------------
(* The document gaps fallback_report lists *)

InitGaps ==
    /\ InitSystem
    /\ \E docs \in [DOMAIN CriticalDocuments -> FieldValues] :
         probe = [kind |-> "gaps", pc |-> "call", docs |-> docs, ret |-> Raises(FALSE)]

\* fallback_report(form, pricing_text) for a form with any content of the
\* six document fields.
CallFallbackReport ==
    /\ probe.kind = "gaps" /\ probe.pc = "call"
    /\ probe' = [probe EXCEPT !.pc = "returned",
                              !.ret = fallback_report(Form("", "", "", probe.docs), "")]
    /\ UNCHANGED <<now, disk, req, claimedEver>>

NextGaps == CallFallbackReport

SpecGaps == InitGaps /\ [][NextGaps]_vars

-----------------------------------------------------------------------------
(* render_architect_report called on any fee estimate *)

\* Totals and row amounts in grosze: none, zero, whole zlotys, half a zloty
\* above an even and above an odd number of zlotys, and other fractions.
Amounts == {NoAmount, 0, 123400, 123450, 123550, 123456, 123449}

CalcTables == {<<>>, <<123400>>, <<100000, 23456>>, <<NoAmount, 50>>}

InitRender ==
    /\ InitSystem
    /\ \E low \in Amounts, high \in Amounts, rows \in CalcTables :
         probe = [kind |-> "render", pc |-> "call",
                  data |-> StructuredReport("tagged", FeeEstimate(low, high, rows)),
                  ret |-> Raises(FALSE)]

\* report = render_architect_report(data, company, architect)
CallRender ==
    /\ probe.kind = "render" /\ probe.pc = "call"
    /\ probe' = [probe EXCEPT !.pc = "returned",
                              !.ret = render_architect_report(probe.data)]
    /\ UNCHANGED <<now, disk, req, claimedEver>>

NextRender == CallRender

SpecRender == InitRender /\ [][NextRender]_vars

-----------------------------------------------------------------------------
(* Plan and subscription status: register, stripe_webhook, dashboard_set_free_plan *)

\* The status a subscription event carries: two that give access, two that
\* do not, and none.
StripeStatuses == {"active", "trialing", "past_due", "canceled", ""}

\* metadata.plan of an event, stripped and lowered: absent, the two paid
\* plans, and a value that is neither.
MetadataPlans == {"", "monthly", "yearly", "weekly"}

EventTypes == {"checkout.session.completed", "customer.subscription.updated",
               "customer.subscription.deleted", "invoice.paid"}

\* POST /register: a new tenant under a fresh id, on the free plan (while
\* ENABLE_FREE_PLAN) and without a subscription.
register(cid) ==
    /\ probe.kind = "billing"
    /\ cid \notin DOMAIN _load_db.companies
    /\ LET db == _load_db
           new == Company(cid, IF ENABLE_FREE_PLAN THEN "free" ELSE "none", "inactive",
                          0, <<>>)
       IN disk' = [db EXCEPT !.companies =
                     [c \in DOMAIN db.companies \cup {cid} |->
                         IF c = cid THEN new ELSE db.companies[c]]]
    /\ UNCHANGED <<now, req, claimedEver, probe>>

\* stripe_webhook leaving the plan as it is when the subscription ends.
stripe_webhook_keeping_plan(company_id, etype, status, plan) ==
    /\ probe.kind = "billing"
    /\ company_id \in DOMAIN _load_db.companies
    /\ LET db == _load_db
           c == db.companies[company_id]
       IN IF etype = "checkout.session.completed"
          THEN disk' = [db EXCEPT !.companies[company_id] =
                          [c EXCEPT !.stripe_status = "active",
                                    !.plan = IF plan \in {"monthly", "yearly"}
                                             THEN plan ELSE "monthly"]]
          ELSE IF etype \in {"customer.subscription.deleted", "customer.subscription.updated"}
          THEN disk' = [db EXCEPT !.companies[company_id] =
                          [c EXCEPT !.stripe_status = status,
                                    !.plan = IF /\ status \in {"active", "trialing"}
                                                /\ plan \in {"monthly", "yearly"}
                                             THEN plan ELSE @]]
          ELSE UNCHANGED disk
    /\ UNCHANGED <<now, req, claimedEver, probe>>

\* POST /stripe/webhook with a verified event of type etype for the tenant
\* company_id, whose object carries `status` and metadata.plan = plan.
stripe_webhook(company_id, etype, status, plan) ==
    /\ probe.kind = "billing"
    /\ company_id \in DOMAIN _load_db.companies
    /\ LET db == _load_db
           c == db.companies[company_id]
       IN IF etype = "checkout.session.completed"
          THEN disk' = [db EXCEPT !.companies[company_id] =
                          [c EXCEPT !.stripe_status = "active",
                                    !.plan = IF plan \in {"monthly", "yearly"}
                                             THEN plan ELSE "monthly"]]
          ELSE IF etype \in {"customer.subscription.deleted", "customer.subscription.updated"}
          THEN disk' = [db EXCEPT !.companies[company_id] =
                          [c EXCEPT !.stripe_status = status,
                                    !.plan = IF /\ status \in {"active", "trialing"}
                                                /\ plan \in {"monthly", "yearly"}
                                             THEN plan
                                             ELSE IF status \notin {"active", "trialing"}
                                             THEN (IF ENABLE_FREE_PLAN THEN "free" ELSE "none")
                                             ELSE @]]
          ELSE UNCHANGED disk
    /\ UNCHANGED <<now, req, claimedEver, probe>>

\* GET /dashboard/plan/free in the session of company cid: nothing for a
\* tenant whose subscription gives access; else the plan becomes free.
dashboard_set_free_plan(cid) ==
    /\ probe.kind = "billing"
    /\ ENABLE_FREE_PLAN
    /\ cid \in DOMAIN _load_db.companies
    /\ LET db == _load_db
       IN IF db.companies[cid].stripe_status \in {"active", "trialing"}
          THEN UNCHANGED disk
          ELSE disk' = [db EXCEPT !.companies[cid].plan = "free"]
    /\ UNCHANGED <<now, req, claimedEver, probe>>

\* The store before any tenant has registered.
InitBilling ==
    /\ now = 0
    /\ disk = EmptyDb
    /\ req = [r \in Requests |-> IdleReq]
    /\ claimedEver = {}
    /\ probe = [kind |-> "billing"]

Register == \E cid \in CompanyIds : register(cid)

StripeWebhook ==
    \E cid \in CompanyIds, etype \in EventTypes, status \in StripeStatuses,
       plan \in MetadataPlans : stripe_webhook(cid, etype, status, plan)

SetFreePlan == \E cid \in CompanyIds : dashboard_set_free_plan(cid)

NextBilling == Register \/ StripeWebhook \/ SetFreePlan

\* Tenants register, Stripe sends events about them and their owners choose
\* the free plan, one request after the other.
SpecBilling == InitBilling /\ [][NextBilling]_vars

-----------------------------------------------------------------------------
(* GET /f/{token}: form_for_client, and the submissions that follow *)

\* The strings _new_submit_token can return.
IssuableTokens == {"t1"}

\* form_for_client writing the token it issues into the registry.
form_for_client_recording(token, submit_token) ==
    /\ probe.kind = "issue"
    /\ submit_token \notin DOMAIN probe.issued \cup claimedEver
    /\ \A r \in Requests : req[r].submit_token # submit_token
    /\ disk # UnreadableFile
    /\ \E f \in find_by_token(token) :
          /\ subscription_active(f[1])
          /\ probe' = [probe EXCEPT !.issued =
                         [t \in DOMAIN @ \cup {submit_token} |->
                             IF t = submit_token THEN [at |-> now, link |-> token]
                             ELSE @[t]]]
          /\ disk' = [disk EXCEPT !.submit_tokens =
                        [t \in DOMAIN @ \cup {submit_token} |->
                            IF t = submit_token THEN now ELSE @[t]]]
    /\ UNCHANGED <<now, req, claimedEver>>

\* GET /f/{token} for a link that finds a tenant with access: the form is
\* rendered with submit_token, a random string that was never drawn before.
\* probe.issued is the history of the tokens issued, read by the properties
\* only; the page answered 404 or 403 carries no token.
form_for_client(token, submit_token) ==
    /\ probe.kind = "issue"
    /\ submit_token \notin DOMAIN probe.issued \cup claimedEver
    /\ \A r \in Requests : req[r].submit_token # submit_token
    /\ \E f \in find_by_token(token) :
          /\ subscription_active(f[1])
          /\ probe' = [probe EXCEPT !.issued =
                         [t \in DOMAIN @ \cup {submit_token} |->
                             IF t = submit_token THEN [at |-> now, link |-> token]
                             ELSE @[t]]]
    /\ UNCHANGED <<now, disk, req, claimedEver>>

InitIssue ==
    /\ InitSystem
    /\ probe = [kind |-> "issue", issued |-> [t \in {} |-> 0]]

GetForm == \E token \in LinkTokens, st \in IssuableTokens : form_for_client(token, st)

NextIssue == GetForm \/ ArriveAloneAnyToken \/ Gate \/ Claim \/ Increment \/ Report \/ Tick

\* Forms are fetched and submitted, one request after the other, while time
\* passes; a submission carries no token, a token a form was rendered with,
\* or a string of the client's own.
SpecIssue == InitIssue /\ [][NextIssue]_vars

-----------------------------------------------------------------------------
(* Properties *)

Has(q, e) == \E i \in DOMAIN q.ev : q.ev[i] = e

WithToken(t) == {r \in Requests : req[r].submit_token = t}

\* C1: a claim of a submission token that an earlier claim has accepted
\* returns "already used", whenever it is made, and that POST increments no
\* usage, generates nothing, delivers nothing and appends nothing.
C1_LaterClaimAlreadyUsed ==
    \A r \in Requests :
        req[r].late => req[r].claim = "used" /\ req[r].ev = <<>>

\* C2: a submission token is accepted (unused -> used) at most once, also
\* after its registry entry has become older than the TTL.
C2_TokenAcceptedAtMostOnce ==
    \A t \in SubmitTokens \ {""} :
        Cardinality({r \in WithToken(t) : req[r].claim = "new"}) <= 1

\* C3: of two POSTs with the same submission token that both reached the
\* idempotency guard and were answered, exactly one stored a ReportRecord
\* and exactly one applied a quota increment.
C3_ConcurrentDuplicateProcessedOnce ==
    \A r1, r2 \in Requests :
        ( /\ r1 < r2
          /\ req[r1].submit_token # "" /\ req[r1].submit_token = req[r2].submit_token
          /\ req[r1].pc = "done" /\ req[r2].pc = "done"
          /\ req[r1].claim # "none" /\ req[r2].claim # "none" )
        => /\ Cardinality({r \in {r1, r2} : Has(req[r], "store")}) = 1
           /\ Cardinality({r \in {r1, r2} : Has(req[r], "incr")}) = 1

\* C4: for every submission token the generation call and the mail delivery
\* run at most once; every other POST with that token that reaches the
\* guard gets the neutral "duplicate" response.
C4_SideEffectsAtMostOncePerToken ==
    \A t \in SubmitTokens \ {""} :
        /\ Cardinality({r \in WithToken(t) : Has(req[r], "gen")}) <= 1
        /\ Cardinality({r \in WithToken(t) : Has(req[r], "send")}) <= 1
        /\ Cardinality({r \in WithToken(t) : req[r].claim # "none"
                                              /\ req[r].status # "duplicate"}) <= 1

\* C5: in a request that carries a token, every quota increment, generation
\* call and delivery attempt comes after the token claim and the save that
\* persists it.
C5_ClaimBeforeEffects ==
    \A r \in Requests :
        req[r].submit_token # "" =>
            \A i \in DOMAIN req[r].ev :
                req[r].ev[i] \in {"incr", "gen", "send"} =>
                    \E j \in DOMAIN req[r].ev :
                        /\ j + 1 < i
                        /\ req[r].ev[j] = "claim"
                        /\ req[r].ev[j + 1] = "save"

C5_Witness ==
    \E r \in Requests :
        /\ req[r].submit_token # "" /\ req[r].status = "accepted"
        /\ Has(req[r], "incr") /\ Has(req[r], "gen") /\ Has(req[r], "send")

\* C6: a POST whose submission token is in the stored registry, unexpired,
\* when it arrives, and whose link is valid and active, is answered with the
\* neutral "duplicate" response, whatever the tenant's quota is.
C6_ReplayAnsweredNeutrally ==
    \A r \in Requests :
        (req[r].replay /\ req[r].pc = "done" /\ req[r].status \notin {"404", "403", "500"})
            => req[r].status = "duplicate"

\* The monthly ceiling of a plan.
Ceiling(plan) ==
    CASE plan = "free" -> FREE_FORMS_PER_MONTH_LIMIT
      [] plan \in {"monthly", "yearly"} -> FORMS_PER_MONTH_LIMIT
      [] OTHER -> 0

\* The submissions a tenant record counts for the month of ts.
SentThisMonth(c, ts) ==
    IF c.usage.period = _period_key(ts) THEN c.usage.forms_sent ELSE 0

\* C7: a POST that reaches the quota gate while the stored tenant has no
\* submission left this month is answered 429, and nothing has happened for
\* it: no token claim, no increment, no generation, no delivery, no write to
\* the store.
C7_ExhaustedQuotaRejects ==
    /\ [](\A r \in Requests :
            req[r].status = "429" => req[r].ev = <<>> /\ req[r].claim = "none")
    /\ [][\A r \in Requests :
            ( /\ req[r].pc = "load" /\ req'[r].pc \notin {"load", "crashed"}
              /\ req[r].company.id \in DOMAIN disk.companies
              /\ Ceiling(disk.companies[req[r].company.id].plan)
                   - SentThisMonth(disk.companies[req[r].company.id], now) <= 0 )
            => /\ req'[r].status = "429"
               /\ req'[r].ev = <<>> /\ req'[r].claim = "none"
               /\ disk' = disk /\ claimedEver' = claimedEver]_vars

C7_Witness ==
    \E r \in Requests :
        /\ req[r].status = "429" /\ req[r].token = "k1"
        /\ disk.companies["c1"].plan = "free"
        /\ disk.companies["c1"].usage.period = _period_key(now)
        /\ disk.companies["c1"].usage.forms_sent = FREE_FORMS_PER_MONTH_LIMIT

\* C8: _forms_remaining returns max(0, ceiling(plan) - forms_sent) with
\* forms_sent taken after the period reset; it is never negative, and right
\* after a reset it is ceiling(plan).
C8_RemainingIsClampedDifference ==
    (probe.kind = "quota" /\ probe.pc = "returned") =>
        LET c == probe.before
            reset == c.usage.period # _period_key(probe.ts)
            sent == IF reset THEN 0 ELSE c.usage.forms_sent
        IN /\ probe.ret = Max(0, Ceiling(c.plan) - sent)
           /\ probe.ret >= 0
           /\ reset => probe.ret = Ceiling(c.plan)
           /\ probe.company.usage = [period |-> _period_key(probe.ts), forms_sent |-> sent]

C8_Witness ==
    /\ probe.kind = "quota" /\ probe.pc = "returned"
    /\ probe.before.plan = "free"
    /\ probe.before.usage.period # _period_key(probe.ts)
    /\ probe.before.usage.forms_sent = FREE_FORMS_PER_MONTH_LIMIT + 1
    /\ probe.ret = FREE_FORMS_PER_MONTH_LIMIT

\* The request is in, or died in, the generation and delivery calls.
InGeneration(q) == q.pc = "work" \/ (q.pc = "crashed" /\ q.crashedAt = "work")

\* C9: the save that follows the usage increment puts the incremented
\* forms_sent on disk before the generation call starts, so a request that is
\* in, or died in, generation or delivery has written its increment.
C9_IncrementSavedBeforeGeneration ==
    /\ [](\A r \in Requests :
            /\ InGeneration(req[r]) =>
                  /\ req[r].incrUsage # NoUsage
                  /\ req[r].savedUsage = req[r].incrUsage
            /\ Has(req[r], "gen") =>
                  \E j \in DOMAIN req[r].ev :
                      /\ req[r].ev[j] = "incr" /\ req[r].ev[j + 1] = "save"
                      /\ \A i \in DOMAIN req[r].ev : req[r].ev[i] = "gen" => j + 1 < i)
    /\ [][\A r \in Requests :
            (req[r].pc = "incr" /\ req'[r].pc = "work") =>
                LET id == req[r].company.id IN
                /\ disk'.companies[id].usage.period = _period_key(now)
                /\ disk'.companies[id].usage.forms_sent
                     = SentThisMonth(req[r].db.companies[id], now) + 1]_vars

C9_Witness ==
    \E r \in Requests :
        /\ req[r].pc = "crashed" /\ req[r].crashedAt = "work" /\ req[r].token = "k1"
        /\ req[r].incrUsage.forms_sent = FREE_FORMS_PER_MONTH_LIMIT
        /\ disk.companies["c1"].usage = req[r].incrUsage

\* C10: when send_email has a recipient and the primary channel fails, the
\* secondary channel is tried exactly once and send_email returns what the
\* secondary channel returned.
C10_SecondaryDecidesAfterPrimaryFails ==
    (probe.kind = "send" /\ probe.m.pc = "done"
        /\ Strip(probe.m.to) # "" /\ probe.m.resend # "2xx")
    => /\ probe.m.resend_calls = 1
       /\ probe.m.smtp_calls = 1
       /\ probe.m.ret = (probe.m.smtp = "ok")

C10_Witness ==
    /\ probe.kind = "send" /\ probe.m.pc = "done"
    /\ probe.m.resend = "exception" /\ probe.m.smtp = "ok"
    /\ probe.m.smtp_calls = 1 /\ probe.m.ret = TRUE

\* C11: every call of send_email returns, True or False, after at most one
\* attempt on each channel: with an empty recipient it returns False and
\* attempts nothing; when the primary channel succeeds the secondary channel
\* is not attempted.
C11_SendTerminatesOneAttemptEach ==
    /\ [](probe.kind = "send" =>
            /\ probe.m.resend_calls <= 1 /\ probe.m.smtp_calls <= 1
            /\ probe.m.pc = "done" =>
                  /\ probe.m.ret \in BOOLEAN
                  /\ Strip(probe.m.to) = "" =>
                        /\ probe.m.ret = FALSE
                        /\ probe.m.resend_calls = 0 /\ probe.m.smtp_calls = 0
                  /\ (Strip(probe.m.to) # "" /\ probe.m.resend = "2xx") =>
                        /\ probe.m.ret = TRUE
                        /\ probe.m.resend_calls = 1 /\ probe.m.smtp_calls = 0)
    /\ <>(probe.kind = "send" /\ probe.m.pc = "done")

C11_Witness ==
    /\ probe.kind = "send" /\ probe.m.pc = "done"
    /\ probe.m.to = "a1@x" /\ probe.m.resend = "2xx" /\ probe.m.smtp = "ok"
    /\ probe.m.resend_calls = 1 /\ probe.m.smtp_calls = 0 /\ probe.m.ret = TRUE

\* The outlines of the reports ai_report returns without raising.
ReturnedReports == {rep \in PossibleReports : rep.kind # "raised"}

\* The history of company id after the record of request r, not delivered,
\* has been put in front of `before`.
UndeliveredOnTop(id, r, before) ==
    LET reports == disk'.companies[id].reports IN
    /\ Len(reports) = Max(1, IF Len(before) < MAX_REPORTS_PER_COMPANY
                             THEN Len(before) + 1 ELSE MAX_REPORTS_PER_COMPANY)
    /\ reports[1].id = r /\ reports[1].email_sent = FALSE
    /\ \A i \in 2..Len(reports) : reports[i] = before[i - 1]

\* C12: a submission past the gates whose mail fails on both channels is
\* still accepted: the submitter gets the acknowledgment, the usage counter
\* keeps the increment, and a record with email_sent = FALSE is put on top of
\* the tenant's history.
C12_UndeliveredStillAccepted ==
    [][\A r \in Requests, rep \in ReturnedReports,
          resend \in ResendOutcomes \ {"2xx"}, smtp \in SmtpOutcomes \ {"ok"} :
            ( /\ req[r].pc = "work" /\ req[r].architect.email # ""
              /\ submit_form_finish(r, rep, Delivery(req[r].architect, resend, smtp), "ok") )
            => LET id == req[r].company.id IN
               /\ req'[r].pc = "done" /\ req'[r].status = "accepted"
               /\ Has(req'[r], "send")
               /\ disk'.companies[id].usage = req[r].incrUsage
               /\ UndeliveredOnTop(id, r, disk.companies[id].reports)]_vars

C12_Witness ==
    \E r \in Requests :
        /\ req[r].status = "accepted" /\ req[r].token = "k1" /\ Has(req[r], "send")
        /\ disk.companies["c1"].usage.forms_sent = FREE_FORMS_PER_MONTH_LIMIT
        /\ Len(disk.companies["c1"].reports) = 1
        /\ disk.companies["c1"].reports[1].id = r
        /\ disk.companies["c1"].reports[1].architect_email = "a1@x"
        /\ disk.companies["c1"].reports[1].email_sent = FALSE

\* C13: when the architect record has no address, submit_form does not call
\* send_email, whatever else happens, and when the report is generated and
\* the history save works the submission is archived with email_sent = FALSE.
C13_NoAddressNoDelivery ==
    [][\A r \in Requests :
            (req[r].pc = "work" /\ req[r].architect.email = "" /\ req'[r].pc = "done")
            => /\ ~Has(req'[r], "send")
               /\ \A rep \in ReturnedReports, resend \in ResendOutcomes,
                     smtp \in SmtpOutcomes :
                     submit_form_finish(r, rep, Delivery(req[r].architect, resend, smtp), "ok")
                     => /\ req'[r].status = "accepted"
                        /\ UndeliveredOnTop(req[r].company.id, r,
                                            disk.companies[req[r].company.id].reports)]_vars

C13_Witness ==
    \E r \in Requests :
        /\ req[r].status = "accepted" /\ req[r].token = "k2" /\ ~Has(req[r], "send")
        /\ Has(req[r], "store")
        /\ Len(disk.companies["c2"].reports) >= 1
        /\ disk.companies["c2"].reports[1].id = r
        /\ disk.companies["c2"].reports[1].architect_email = ""
        /\ disk.companies["c2"].reports[1].email_sent = FALSE

\* C14: a request that is past the quota gate and the idempotency guard, and
\* has returned, has returned the success acknowledgment.
C14_AlwaysAcknowledged ==
    \A r \in Requests :
        (req[r].pc = "done" /\ Has(req[r], "incr")) => req[r].status = "accepted"

\* The call of ai_report is over and its backend behaved in one of `cases`.
AiReportOver(cases) ==
    probe.kind = "report" /\ probe.pc = "over" /\ probe.backend \in cases

\* ai_report returned the text of fallback_report followed by a note.
EstimateWithNote ==
    /\ probe.ret.kind = "fallback"
    /\ probe.ret.note # ""
    /\ [probe.ret EXCEPT !.note = "", !.called = FALSE]
         = fallback_report(FormOf(probe.area), probe.pricing_text)

\* C15: when the backend raises, or returns empty content, content that is
\* no JSON, or JSON that is no object, ai_report does not raise: it returns
\* the text of fallback_report(form, pricing_text) followed by a non-empty
\* "[AI ERROR ...]" note.
C15_BackendFailureDegrades ==
    AiReportOver({"raises", "empty", "nonjson", "nonobject"}) => EstimateWithNote

\* C16: in every degradation case, the unconfigured backend included, in
\* which fallback_report has a text to give, ai_report returns that text
\* carrying an error note.
C16_EveryDegradationAnnotated ==
    ( /\ AiReportOver({"unconfigured", "raises", "empty", "nonjson", "nonobject"})
      /\ fallback_report(FormOf(probe.area), probe.pricing_text).kind # "raised" )
    => EstimateWithNote

\* C17: an object of the backend in which a fact or a calc_table row has no
\* source tag is not rendered: ai_report degrades to the estimate.
C17_UntaggedObjectRejected ==
    AiReportOver({"untagged"}) =>
        probe.ret.kind # "rendered" /\ (probe.ret.kind # "raised" => EstimateWithNote)

\* C18: a POST rejected with 404 (no architect carries the link token), 403
\* (the tenant has no access) or 429 (quota exhausted) has claimed no token,
\* incremented nothing, generated and delivered nothing, and the step that
\* rejects it leaves the data file as it was.
C18_RejectionsTouchNothing ==
    /\ [](\A r \in Requests :
            req[r].status \in {"404", "403", "429"} =>
                /\ req[r].pc = "done" /\ req[r].ev = <<>> /\ req[r].claim = "none"
                /\ req[r].incrUsage = NoUsage /\ req[r].savedUsage = NoUsage
                /\ req[r].status = "404" <=> find_by_token(req[r].token) = {})
    /\ [][\A r \in Requests :
            (req[r].status = "" /\ req'[r].status \in {"404", "403", "429"})
            => disk' = disk /\ claimedEver' = claimedEver]_vars

C18_Witness ==
    \E r1, r2 \in Requests :
        /\ req[r1].status = "404" /\ req[r1].token = "kx"
        /\ req[r2].status = "403" /\ req[r2].token = "k3"
        /\ disk = InitialDb /\ claimedEver = {}

\* C19: a POST for an issued link that is answered while the data file
\* cannot be read, or while its tenant is missing from the loaded store, is
\* answered with a server error (5xx), not with another outcome.
C19_UnreadableStoreIsServerError ==
    [][\A r \in Requests :
            ( /\ req[r].pc \in {"idle", "load"} /\ req'[r].pc = "done"
              /\ req'[r].token \in IssuedTokens
              /\ \/ disk = UnreadableFile
                 \/ find_by_token(req'[r].token) = {} )
            => req'[r].status = "500"]_vars

\* C20: a step of a request for one tenant leaves the stored record of every
\* other tenant (usage, reports, plan, architects) as it was, in every
\* interleaving of concurrent requests.
C20_OtherTenantsUntouched ==
    [][\A r \in Requests :
            req'[r] # req[r] =>
                \A c \in CompanyIds \ {req[r].company.id} :
                    disk'.companies[c] = disk.companies[c]]_vars

\* The tenant an issued link token belongs to.
TenantOf(token) ==
    CHOOSE c \in CompanyIds : InitialDb.companies[c].architects[1].token = token

\* The requests that were processed for tenant c.
Processed(c) ==
    {r \in Requests : /\ req[r].status = "accepted"
                      /\ req[r].token \in IssuedTokens /\ TenantOf(req[r].token) = c}

\* C21: when concurrent submissions with pairwise distinct tokens for one
\* tenant have all returned, the stored forms_sent has gone up by one for
\* each processed submission, and the submissions processed in the month do
\* not exceed the ceiling of the tenant's plan.
C21_EveryIncrementCountedUnderCeiling ==
    Quiet => \A c \in CompanyIds :
        LET sent == InitialDb.companies[c].usage.forms_sent + Cardinality(Processed(c))
        IN /\ disk.companies[c].usage.forms_sent = sent
           /\ Cardinality(Processed(c)) > 0 => sent <= Ceiling(disk.companies[c].plan)

\* The calls of _store_report made for tenant c, by their number.
StoredFor(c) == {k \in DOMAIN probe.calls : probe.calls[k] = c}

\* The n-th newest of the calls in S.
NthNewest(S, n) == CHOOSE k \in S : Cardinality({j \in S : j > k}) = n - 1

\* C22: after any sequence of _store_report calls the history of a tenant
\* holds at most MAX_REPORTS_PER_COMPANY records: the records of the latest
\* calls made for it, the newest first, the oldest ones evicted.
C22_HistoryCappedNewestFirst ==
    probe.kind = "history" =>
        \A c \in CompanyIds :
            LET reports == probe.db.companies[c].reports
                S == StoredFor(c)
            IN /\ Len(reports) <= MAX_REPORTS_PER_COMPANY
               /\ Len(reports) = IF Cardinality(S) < MAX_REPORTS_PER_COMPANY
                                 THEN Cardinality(S) ELSE MAX_REPORTS_PER_COMPANY
               /\ \A i \in DOMAIN reports :
                     /\ reports[i].id = NthNewest(S, i)
                     /\ reports[i].created_at = NthNewest(S, i)
               /\ \A i, j \in DOMAIN reports :
                     i < j => reports[i].created_at > reports[j].created_at

C22_Witness ==
    /\ probe.kind = "history"
    /\ probe.calls = <<"c1", "c2", "c1", "c1">>
    /\ Len(probe.db.companies["c1"].reports) = MAX_REPORTS_PER_COMPANY
    /\ probe.db.companies["c1"].reports[1].id = 4
    /\ probe.db.companies["c1"].reports[2].id = 3
    /\ Len(probe.db.companies["c2"].reports) = 1

\* C23: a record that is in a tenant's history stays there as it is until
\* the cap evicts it: every step leaves each history as it was, or puts one
\* new record in front of it and cuts the oldest off at the cap.
C23_RecordsLeaveOnlyByEviction ==
    [][\A c \in CompanyIds :
          LET before == disk.companies[c].reports
              after == disk'.companies[c].reports
          IN \/ after = before
             \/ /\ Len(after) >= 1
                /\ Tail(after) = Truncate(before, HistoryCap - 1)]_vars

\* C24: each reader of a tenant's usage (the quota test of submit_form, the
\* increment, the dashboard) works on a usage whose period is the month of
\* the call: a count stored under another period is read as 0, a count of
\* the current period as it is.
C24_UsageReadInCurrentPeriod ==
    (probe.kind = "usage" /\ probe.pc = "returned") =>
        LET key == _period_key(probe.ts)
            stored == probe.before.usage
            fresh == IF stored.period = key THEN stored.forms_sent ELSE 0
            left == Max(0, Ceiling(probe.before.plan) - fresh)
        IN /\ probe.company.usage.period = key
           /\ probe.reader = "submit_form" =>
                 /\ probe.company.usage.forms_sent = fresh
                 /\ probe.remaining = left
           /\ probe.reader = "_increment_forms_sent" =>
                 probe.company.usage.forms_sent = fresh + 1
           /\ probe.reader = "dashboard" =>
                 /\ probe.company.usage.forms_sent = fresh
                 /\ probe.sent = fresh
                 /\ probe.remaining = left

C24_Witness ==
    /\ probe.kind = "usage" /\ probe.pc = "returned" /\ probe.reader = "dashboard"
    /\ probe.before.plan = "free"
    /\ probe.before.usage = [period |-> 0, forms_sent |-> FREE_FORMS_PER_MONTH_LIMIT]
    /\ probe.ts = MonthLen
    /\ probe.company.usage = [period |-> 1, forms_sent |-> 0]
    /\ probe.sent = 0 /\ probe.remaining = FREE_FORMS_PER_MONTH_LIMIT

\* Architect a of tenant c is in the file after the step.
KeptAfter(c, a) ==
    \E j \in DOMAIN disk'.companies[c].architects : disk'.companies[c].architects[j] = a

\* Architect a of tenant c was in the file before the step.
HeldBefore(c, a) ==
    \E j \in DOMAIN disk.companies[c].architects : disk.companies[c].architects[j] = a

\* C25: the link token of an architect is set by add_architect and by
\* nothing else, no step changes it, and it leaves the file only in a step
\* of delete_architect for that architect.
C25_LinkTokenFixedUntilDeleted ==
    [][\A c \in CompanyIds :
          /\ \A i \in DOMAIN disk.companies[c].architects :
                LET a == disk.companies[c].architects[i]
                IN KeptAfter(c, a) \/ delete_architect(c, a.id)
          /\ \A i \in DOMAIN disk'.companies[c].architects :
                LET a == disk'.companies[c].architects[i]
                IN HeldBefore(c, a) \/ add_architect(c, a.email)]_vars

\* C26: a POST whose form carries no submission token is not handed to the
\* guard: it claims nothing and its guard step writes nothing; and, while
\* the backend answers and the store is writable, every such POST that is
\* past the quota gate is processed in full (increment, generation,
\* delivery, history record), however many of them there have been.
C26_TokenlessNeverDeduplicated ==
    /\ [](\A r \in Requests :
            ( /\ req[r].pc = "done" /\ req[r].submit_token = ""
              /\ req[r].status \notin {"404", "403", "429", "500"} )
            => /\ req[r].status = "accepted" /\ req[r].claim = "none"
               /\ req[r].ev = <<"incr", "save", "gen", "send", "store", "save">>)
    /\ [][\A r \in Requests :
            ( /\ req[r].pc = "form" /\ req[r].submit_token = ""
              /\ req'[r].pc \notin {"form", "crashed"} )
            => /\ req'[r].pc = "incr" /\ req'[r].claim = "none"
               /\ disk' = disk /\ claimedEver' = claimedEver]_vars

C26_Witness ==
    /\ \E r1, r2 \in Requests :
          /\ r1 # r2
          /\ \A r \in {r1, r2} :
                /\ req[r].status = "accepted" /\ req[r].token = "k2"
                /\ req[r].submit_token = "" /\ Has(req[r], "store")
    /\ disk.companies["c2"].usage.forms_sent
         = InitialDb.companies["c2"].usage.forms_sent + 2
    /\ "" \notin DOMAIN disk.submit_tokens

\* The areas that are whole numbers of square metres.
WholeAreas == {a \in DOMAIN DecimalAreas : DecimalAreas[a] % AreaScale = 0}

\* A * u * m for the area a and the standard and region of the estimate.
MidTotal(a) ==
    (DecimalAreas[a] \div AreaScale) * (BUILD_COST_M2_PLN(probe.standard) \div 100)
        * REGION_MULTIPLIER(probe.region)

\* C27: with mid = A * u * m (u and m from the two tables, 6000 and 1.0 by
\* default), the totals the estimator gives are mid, low = 0.90 * mid and
\* high = 1.15 * mid, and low <= mid <= high; for A = 8500, u = 6000 and
\* m = 1.0 they are 51 000 000, 45 900 000 and 58 650 000.  Stated for the
\* areas in which the three numbers are whole.
C27_TotalsAreTheScaledMid ==
    (probe.kind = "estimate" /\ probe.pc = "returned") =>
        \A a \in WholeAreas :
            LET mid == MidTotal(a)
                low == (mid \div 10) * 9
                high == (mid \div 20) * 23
            IN mid % 20 = 0 =>
                 /\ low <= mid /\ mid <= high
                 /\ probe.ret[a].build_low = low
                 /\ probe.ret[a].build_high = high
                 /\ probe.base[a].total_mid = [whole |-> mid, exact |-> TRUE]
                 /\ probe.base[a].total_low = [whole |-> low, exact |-> TRUE]
                 /\ probe.base[a].total_high = [whole |-> high, exact |-> TRUE]

\* The value of a posted area in ten-thousandths of a square metre.
AreaValue(a) == float(a).n

\* C28 as the specification states it: of two areas, the standard and the
\* region being the same, the larger one gets the strictly greater low total
\* and the strictly greater high total.
C28_TotalsStrictlyIncreasing ==
    (probe.kind = "estimate" /\ probe.pc = "returned") =>
        \A a1, a2 \in EstimateAreas :
            AreaValue(a1) < AreaValue(a2) =>
                /\ probe.ret[a1].build_low < probe.ret[a2].build_low
                /\ probe.ret[a1].build_high < probe.ret[a2].build_high

\* C28, amended: of two areas, the standard and the region being the same,
\* the larger one gets a low total and a high total that are not smaller,
\* and, for areas of the size of buildings, strictly greater ones when the
\* areas are at least 1 m2 apart; the totals are cut to whole zlotys, so
\* closer areas can get the same total.
C28_TotalsIncreaseByWholeMetres ==
    (probe.kind = "estimate" /\ probe.pc = "returned") =>
        \A a1, a2 \in EstimateAreas :
            AreaValue(a1) < AreaValue(a2) =>
                /\ probe.ret[a1].build_low <= probe.ret[a2].build_low
                /\ probe.ret[a1].build_high <= probe.ret[a2].build_high
                /\ AreaValue(a2) - AreaValue(a1) >= AreaScale =>
                      /\ probe.ret[a1].build_low < probe.ret[a2].build_low
                      /\ probe.ret[a1].build_high < probe.ret[a2].build_high

C28_Witness ==
    /\ probe.kind = "estimate" /\ probe.pc = "returned"
    /\ probe.standard = "Standard" /\ probe.region = "Mniejsze miasto / okolice"
    /\ probe.ret["100"].build_low = 540000
    /\ probe.ret["100.0001"].build_low = 540000
    /\ probe.ret["120"].build_low = 648000
    /\ probe.ret["100"].build_high < probe.ret["120"].build_high

\* The lines of the list that name document i.
LinesNaming(i) ==
    {j \in DOMAIN probe.ret.missing_list :
        probe.ret.missing_list[j] = "- " \o CriticalDocuments[i]}

\* C29: fallback_report lists as missing exactly those of the six document
\* fields that the form does not hold or holds with a falsy value (the empty
\* string, False), each once and in the order of the six; the "no critical
\* gaps" line is printed when none is missing and only then.
C29_MissingAreTheFalsyFields ==
    (probe.kind = "gaps" /\ probe.pc = "returned") =>
        LET gaps == {i \in DOMAIN CriticalDocuments :
                        probe.docs[i] \in {"absent", "empty", "false"}}
            list == probe.ret.missing_list
        IN /\ \A i \in DOMAIN CriticalDocuments :
                 Cardinality(LinesNaming(i)) = IF i \in gaps THEN 1 ELSE 0
           /\ \A i1, i2 \in gaps : \A j1 \in LinesNaming(i1), j2 \in LinesNaming(i2) :
                 i1 < i2 => j1 < j2
           /\ (\E j \in DOMAIN list : list[j] = NoGapsLine) <=> gaps = {}
           /\ Len(list) = IF gaps = {} THEN 1 ELSE Cardinality(gaps)

C29_Witness ==
    /\ probe.kind = "gaps" /\ probe.pc = "returned"
    /\ probe.docs = <<"true", "false", "text", "empty", "absent", "true">>
    /\ probe.ret.missing_list
         = <<"- map_for_design", "- power_conditions", "- water_conditions">>

\* C31: a claim that returns "not previously used" saves a registry that
\* holds the token with the time of the claim and no entry older than the
\* TTL; a claim that returns "already used" saves nothing, so the sweep it
\* made is not written to the file.
C31_SavedRegistrySweptOnNewClaim ==
    [][\A r \in Requests :
          (req[r].pc = "form" /\ req[r].submit_token # "" /\ req'[r] # req[r]) =>
              \/ /\ req'[r].claim = "new"
                 /\ req[r].submit_token \in DOMAIN disk'.submit_tokens
                 /\ disk'.submit_tokens[req[r].submit_token] = now
                 /\ \A k \in DOMAIN disk'.submit_tokens :
                       now - disk'.submit_tokens[k] <= ttl_seconds
              \/ /\ req'[r].claim = "used" /\ req'[r].status = "duplicate"
                 /\ disk' = disk]_vars

C31_Witness ==
    /\ now > ttl_seconds
    /\ \E r1, r2 \in Requests :
          /\ req[r1].submit_token = "t1" /\ req[r1].claim = "new"
          /\ req[r2].submit_token = "t2" /\ req[r2].claim = "new"
    /\ DOMAIN disk.submit_tokens = {"t2"}
    /\ disk.submit_tokens["t2"] = now

\* The sum line shows `shown` zlotys for the supplied amount.
ShownExactly(shown, supplied) ==
    supplied # NoAmount => shown * 100 = supplied

\* The sum line shows the whole zlotys nearest to the supplied amount, the
\* even ones of two that are equally near, and 0 for no amount.
ShownRounded(shown, supplied) ==
    IF supplied = NoAmount THEN shown = 0
    ELSE /\ shown * 100 - supplied <= 50 /\ supplied - shown * 100 <= 50
         /\ (shown * 100 - supplied \in {50, -50}) => shown % 2 = 0

\* C32 as the specification states it: the sum line shows exactly the
\* total_low_pln and total_high_pln of the structured data.
C32_SumLineShowsTotalsExactly ==
    (probe.kind = "render" /\ probe.pc = "returned") =>
        /\ ShownExactly(probe.ret.fee_sum[1], probe.data.fee_estimate.total_low_pln)
        /\ ShownExactly(probe.ret.fee_sum[2], probe.data.fee_estimate.total_high_pln)

\* C32, amended: the sum line shows total_low_pln and total_high_pln of the
\* structured data rounded to whole zlotys (a half to the even zloty, an
\* absent total as 0), whatever the amounts of the calc_table rows are; a
\* total of whole zlotys is shown as it is.
C32_SumLineShowsTotalsRounded ==
    (probe.kind = "render" /\ probe.pc = "returned") =>
        LET fee == probe.data.fee_estimate IN
        /\ ShownRounded(probe.ret.fee_sum[1], fee.total_low_pln)
        /\ ShownRounded(probe.ret.fee_sum[2], fee.total_high_pln)
        /\ \A t \in {1, 2} :
              LET supplied == IF t = 1 THEN fee.total_low_pln ELSE fee.total_high_pln
              IN (supplied # NoAmount /\ supplied % 100 = 0)
                     => probe.ret.fee_sum[t] * 100 = supplied

C32_Witness ==
    /\ probe.kind = "render" /\ probe.pc = "returned"
    /\ probe.data.fee_estimate = FeeEstimate(123400, 123550, <<100000, 23456>>)
    /\ probe.ret.fee_sum = <<1234, 1236>>
    /\ probe.ret.fee_rows = <<1000, 235>>

\* No architect of the db carries the link token.
UnknownLink(db, token) ==
    \A c \in DOMAIN db.companies :
        \A i \in DOMAIN db.companies[c].architects :
            db.companies[c].architects[i].token # token

\* The tenant record of the db one of whose architects carries the link token.
LinkTenant(db, token) ==
    db.companies[CHOOSE c \in DOMAIN db.companies :
                    \E i \in DOMAIN db.companies[c].architects :
                        db.companies[c].architects[i].token = token]

\* The tenant has neither a running subscription nor the free plan.
NoAccess(c) == c.stripe_status \notin {"active", "trialing"} /\ c.plan # "free"

\* C33: submit_form evaluates its rejections in a fixed order: unknown
\* recipient token (404), inactive access (403), tenant missing from the
\* store (500), exhausted quota (429), duplicate submission token; a POST
\* that meets several of them gets the first, and one that meets none of
\* those tested so far goes on to the next test.
C33_RejectionsInFixedOrder ==
    [][\A r \in Requests :
          (req'[r] # req[r] /\ req'[r].pc # "crashed") =>
              LET db == IF disk = UnreadableFile THEN EmptyDb ELSE disk
                  q == req'[r]
              IN CASE req[r].pc = "idle" ->
                        IF UnknownLink(db, q.token) THEN q.status = "404"
                        ELSE IF NoAccess(LinkTenant(db, q.token)) THEN q.status = "403"
                        ELSE q.pc = "load" /\ q.status = ""
                   [] req[r].pc = "load" ->
                        IF req[r].company.id \notin DOMAIN db.companies
                        THEN q.status = "500"
                        ELSE IF Ceiling(db.companies[req[r].company.id].plan)
                                  - SentThisMonth(db.companies[req[r].company.id], now) <= 0
                        THEN q.status = "429"
                        ELSE q.pc = "form" /\ q.status = ""
                   [] req[r].pc = "form" ->
                        IF /\ req[r].submit_token # ""
                           /\ req[r].submit_token \in DOMAIN req[r].db.submit_tokens
                           /\ now - req[r].db.submit_tokens[req[r].submit_token] <= ttl_seconds
                        THEN q.status = "duplicate"
                        ELSE q.pc = "incr" /\ q.status = ""
                   [] OTHER -> TRUE]_vars

\* A POST that repeats a claimed submission token for a tenant whose quota is
\* used up meets the last two rejections and is answered 429.
C33_Witness ==
    \E r \in Requests :
        /\ req[r].status = "429" /\ req[r].token = "k1" /\ req[r].submit_token = "t1"
        /\ "t1" \in DOMAIN disk.submit_tokens
        /\ disk.companies["c1"].usage.forms_sent = FREE_FORMS_PER_MONTH_LIMIT

\* C34: a POST with an already-claimed submission token leaves the persisted
\* store completely unchanged: no step of a request whose token an earlier
\* request has claimed saves anything, so usage, history, plan and the token
\* registry on disk are as before the request.
C34_ClaimedTokenLeavesStoreUnchanged ==
    [][\A r \in Requests :
          ( /\ req'[r] # req[r]
            /\ req'[r].submit_token # ""
            /\ req'[r].submit_token \in claimedEver
            /\ req[r].claim # "new" )
          => disk' = disk]_vars

\* The submissions the store counts for tenant c in month m.
SentIn(d, c, m) ==
    IF d.companies[c].usage.period = m THEN d.companies[c].usage.forms_sent ELSE 0

\* The persisted count of the current month starts at 0 with the month, grows
\* by one with each usage increment of a submission for the tenant, changes
\* at no other step, and stays at or under the ceiling of the plan.
CountsIncrementsOfTheMonth ==
    \A c \in CompanyIds :
        LET month == _period_key(now)
            incremented == \E r \in Requests :
                              /\ req[r].pc = "incr" /\ req'[r].pc = "work"
                              /\ req[r].company.id = c
        IN /\ SentIn(disk', c, _period_key(now')) <= Ceiling(disk'.companies[c].plan)
           /\ IF _period_key(now') # month THEN SentIn(disk', c, _period_key(now')) = 0
              ELSE IF incremented THEN SentIn(disk', c, month) = SentIn(disk, c, month) + 1
              ELSE SentIn(disk', c, month) = SentIn(disk, c, month)

\* The month in which the request passed the quota gate: the period of the
\* usage record the gate left in the db of the request.
GateMonth(r) == req[r].db.companies[req[r].company.id].usage.period

\* C35 as the specification states it: in a sequential execution with the
\* plan unchanged, the persisted forms_sent of the current month equals the
\* number of submissions that passed the gates in that month, and never
\* exceeds the ceiling: each submission is counted in the month in which it
\* passed the gates.
C35_CountsSubmissionsPassedInTheMonth ==
    [][/\ CountsIncrementsOfTheMonth
       /\ \A r \in Requests :
             (req[r].pc = "incr" /\ req'[r].pc = "work") =>
                 SentIn(disk', req[r].company.id, GateMonth(r))
                     = SentIn(disk, req[r].company.id, GateMonth(r)) + 1]_vars

\* C35, amended: in a sequential execution with the plan unchanged, the
\* persisted forms_sent of the current month equals the number of
\* submissions whose usage increment ran in that month, each of them after
\* passing the gates, and never exceeds the ceiling of the plan.
C35_CountsSubmissionsIncrementedInTheMonth ==
    [][/\ CountsIncrementsOfTheMonth
       /\ \A r \in Requests :
             (req[r].pc = "incr" /\ req'[r].pc = "work") =>
                 /\ req[r].remaining > 0
                 /\ req[r].claim = (IF req[r].submit_token = "" THEN "none" ELSE "new")]_vars

\* A submission is counted in the month that began after the first submission
\* of the run had used up the quota of the month before.
C35_Witness ==
    \E r1, r2 \in Requests :
        /\ req[r1].status = "accepted" /\ req[r1].token = "k1"
        /\ req[r2].pc = "work" /\ req[r2].token = "k1"
        /\ now = MonthLen
        /\ disk.companies["c1"].usage = [period |-> _period_key(MonthLen), forms_sent |-> 1]

\* The places of the history S that hold a record of the submission r.
RecordsOf(S, r) == {i \in DOMAIN S : S[i].delivery_id = r}

\* C36: every submission that has passed the quota and idempotency gates and
\* whose processing runs to its end (ai_report returns, the history save
\* works) leaves exactly one ReportRecord of its own in the persisted history
\* of its tenant, which held none before: the record carries the delivery_id
\* of the submission, and its email_sent is true if and only if send_email
\* was called and returned true.
C36_OneRecordPerCompletedSubmission ==
    [][\A r \in Requests, rep \in PossibleReports,
          resend \in ResendOutcomes, smtp \in SmtpOutcomes :
            ( /\ req[r].pc = "work" /\ rep.kind # "raised"
              /\ submit_form_finish(r, rep, Delivery(req[r].architect, resend, smtp), "ok") )
            => LET id == req[r].company.id
                   before == disk.companies[id].reports
                   after == disk'.companies[id].reports
               IN /\ req'[r].status = "accepted"
                  /\ RecordsOf(before, r) = {}
                  /\ Cardinality(RecordsOf(after, r)) = 1
                  /\ \A c \in DOMAIN disk'.companies \ {id} :
                        RecordsOf(disk'.companies[c].reports, r) = {}
                  /\ \A i \in RecordsOf(after, r) :
                        after[i].email_sent
                          = ( /\ req[r].architect.email # ""
                              /\ send_email(req[r].architect.email, resend, smtp).ret )]_vars

\* One completed submission is archived as delivered, another as undelivered.
C36_Witness ==
    \E r1, r2 \in Requests :
        /\ req[r1].status = "accepted" /\ Has(req[r1], "send")
        /\ req[r2].status = "accepted" /\ ~Has(req[r2], "send")
        /\ \E i \in RecordsOf(disk.companies["c1"].reports, r1) :
              disk.companies["c1"].reports[i].email_sent
        /\ \E i \in RecordsOf(disk.companies["c2"].reports, r2) :
              ~disk.companies["c2"].reports[i].email_sent

\* C37: if a request stops (crash or unhandled exception) after its token
\* claim has been saved and before its report is stored, the token remains
\* used: a retry of the same form that is answered is answered "already
\* received", although no report was generated, delivered or archived for it.
C37_RetryAfterCrashAlreadyReceived ==
    \A r1, r2 \in Requests :
        ( /\ r1 < r2
          /\ req[r1].pc = "crashed" /\ req[r1].crashedAt \in {"incr", "work"}
          /\ req[r1].claim = "new"
          /\ req[r2].token = req[r1].token
          /\ req[r2].submit_token = req[r1].submit_token
          /\ req[r2].pc = "done" )
        => /\ req[r2].status = "duplicate"
           /\ req[r2].ev = <<>>

\* C38: a change written by another request that completes while a
\* submission is in progress (here: an architect added or deleted on the
\* dashboard) is still present after the later saves of the submission: a
\* step of a submission writes back only its own token, usage and history
\* changes, so it leaves the architects, the plan and the subscription status
\* of every stored tenant as it finds them in the file.
C38_SubmissionKeepsChangesOfOthers ==
    [][\A r \in Requests :
          req'[r] # req[r] =>
              \A c \in DOMAIN disk.companies :
                  /\ c \in DOMAIN disk'.companies
                  /\ disk'.companies[c].architects = disk.companies[c].architects
                  /\ disk'.companies[c].plan = disk.companies[c].plan
                  /\ disk'.companies[c].stripe_status = disk.companies[c].stripe_status]_vars

\* C39: after any sequence of billing-webhook events and set-free-plan
\* actions on tenants created by register, a tenant whose plan is monthly or
\* yearly has the subscription status active or trialing, so subscription_active
\* gives it access and its forms are not refused with 403.
C39_PaidPlanHasAccess ==
    probe.kind = "billing" =>
        \A c \in DOMAIN disk.companies :
            disk.companies[c].plan \in {"monthly", "yearly"}
                => /\ disk.companies[c].stripe_status \in {"active", "trialing"}
                   /\ subscription_active(disk.companies[c])

\* One tenant is on a paid plan in its trial; another was on a paid plan and
\* is back on the free plan after its subscription was canceled.
C39_Witness ==
    /\ probe.kind = "billing"
    /\ {"c1", "c2"} \subseteq DOMAIN disk.companies
    /\ disk.companies["c1"].plan = "yearly"
    /\ disk.companies["c1"].stripe_status = "trialing"
    /\ disk.companies["c2"].plan = "free"
    /\ disk.companies["c2"].stripe_status = "canceled"

\* C40: the guard does not record issuance.  form_for_client issues a token
\* and writes nothing to the store; the first claim of any non-empty token
\* string is accepted, whether or not a form was ever rendered with it,
\* however long ago, and through whichever link it is submitted; and an
\* entry enters the registry, or gets a new timestamp, only in a step in
\* which a request claims that token, with the time of the claim.
C40_GuardDoesNotRecordIssuance ==
    [][/\ probe' # probe => disk' = disk
       /\ \A r \in Requests :
             ( /\ req[r].pc = "form" /\ req'[r] # req[r]
               /\ req[r].submit_token # ""
               /\ req[r].submit_token \notin claimedEver )
             => /\ req'[r].claim = "new"
                /\ req[r].submit_token \in DOMAIN disk'.submit_tokens
                /\ disk'.submit_tokens[req[r].submit_token] = now
       /\ \A t \in DOMAIN disk'.submit_tokens :
             (t \notin DOMAIN disk.submit_tokens \/ disk'.submit_tokens[t] # disk.submit_tokens[t])
             => /\ disk'.submit_tokens[t] = now
                /\ \E r \in Requests :
                      /\ req[r].pc = "form" /\ req[r].submit_token = t
                      /\ req'[r].claim = "new"]_vars

\* A token rendered into the form of one tenant at the start is claimed a
\* month later through the link of another tenant, and a string no form was
\* rendered with is claimed too.
C40_Witness ==
    \E r1, r2 \in Requests :
        /\ probe.kind = "issue" /\ DOMAIN probe.issued = {"t1"}
        /\ probe.issued["t1"] = [at |-> 0, link |-> "k1"]
        /\ req[r1].submit_token = "t1" /\ req[r1].token = "k2" /\ req[r1].claim = "new"
        /\ req[r2].submit_token = "t2" /\ req[r2].claim = "new"
        /\ now = MonthLen
        /\ "t2" \in DOMAIN disk.submit_tokens
        /\ disk.submit_tokens["t2"] = MonthLen

====
